---- MODULE Spec2Model ----
(***************************************************************************)
(* Multi-tenant authentication gateway (llm-api-layer).                    *)
(*                                                                         *)
(* The model covers the credential store (Redis keys written by            *)
(* TenantService), the token issuer (generateToken), the auth gate (the    *)
(* 'jwt' strategy of authPlugin: time checks and validate), the hapi       *)
(* request lifecycle of every route (lookup, authentication, scope,        *)
(* input validation, handler, onPreResponse) and the LLM proxy routes.     *)
(* Each action is one request served to completion, or one step of the     *)
(* environment (the clock, a token signed with the shared secret, an       *)
(* external write to the store).                                           *)
(***************************************************************************)
EXTENDS Integers, Sequences, FiniteSets, TLC

VARIABLES
    now,        \* wall clock, in seconds
    ticks,      \* number of clock steps taken (bounds the run)
    mounted,    \* route tables registered on the server
    redis,      \* the credential store, one field per key family
    tokens,     \* token strings that exist (issued, or signed with the secret)
    resp,       \* the request served (or the directory call made) last and its result
    inflight    \* requests suspended between their existence check and their writes

vars == <<now, ticks, mounted, redis, tokens, resp, inflight>>

\* ---------------------------------------------------------------- bounds
MaxUuid == 5        \* size of the uuid pool (tenant, user and session ids)
MaxTokens == 2      \* token strings in existence
MaxTicks == 2       \* clock steps per run
MaxSessions == 1    \* sessions in the store
MaxInflight == 2    \* requests suspended at once
MaxTenants == 2     \* tenants a caller of the directory creates
MaxEvicted == 1     \* user keys that leave the store
MaxRetries == 12    \* retry counts reconnectStrategy is called with

\* ------------------------------------------------------ program constants
ttlSec == 14400             \* generateToken: ttlSec
maxAgeSec == 14400          \* verify.maxAgeSec
timeSkewSec == 15           \* verify.timeSkewSec
blacklistTtl == 14400       \* blacklistToken: expiresIn default
sessionTtl == 14400         \* createSession: setEx ttl
passwordMin == 8            \* Joi: password min(8)
reconnectLimit == 10        \* reconnectStrategy: retries > 10 ends it
reconnectStepMs == 500      \* reconnectStrategy: retries * 500
ollamaTimeoutMs == 120000   \* axios.create: timeout

\* the clock advances by one of these amounts
Jumps == {1, ttlSec}

\* ------------------------------------------------------------ input pools
Uuids == 1..MaxUuid
Domains == {"acme.com", "beta.io"}
Emails == {"admin@acme.com", "bob@acme.com"}
Usernames == {"alice"}
Passwords == {"SecurePass123", "short"}
Roles == {"admin", "user"}
TenantNames == {"Acme"}

\* length of the strings the schemas measure
\* Two plaintexts longer than bcrypt's 72-byte input that share their first 72 bytes.
Prefix72 == "012345678901234567890123456789012345678901234567890123456789012345678901"
LongPasswords == {Prefix72 \o "A", Prefix72 \o "B"}
StrLen(s) ==
    IF s = "" THEN 0
    ELSE IF s = "short" THEN 5
    ELSE IF s \in LongPasswords THEN 73
    ELSE 13

\* x-tenant-id header values: absent, a uuid, or a string that is no uuid
NoHeader == [kind |-> "absent"]
UuidHeader(id) == [kind |-> "uuid", id |-> id]
TextHeader == [kind |-> "text", text |-> "different-tenant-id"]
HeaderValues == {NoHeader, TextHeader} \cup {UuidHeader(i) : i \in Uuids}

\* ------------------------------------------------------------------ store
EmptyStore ==
    [tenant    |-> <<>>,    \* tenant:<id>                    -> JSON
     domain    |-> <<>>,    \* tenant:domain:<domain>         -> tenant id
     user      |-> <<>>,    \* tenant:<tid>:user:<uid>        -> JSON
     email     |-> <<>>,    \* tenant:<tid>:user:email:<mail> -> user id
     users     |-> <<>>,    \* tenant:<tid>:users             -> set of user ids
     all       |-> {},      \* tenants:all                    -> set of tenant ids
     blacklist |-> <<>>,    \* token:blacklist:<token>        -> expiry instant
     session   |-> <<>>]    \* session:<id>                   -> JSON, expiry instant

\* JSON.stringify / JSON.parse of an entity; a stored value that is not the
\* serialisation of an object does not parse
JSONstringify(rec) == [json |-> TRUE, value |-> rec]
Malformed == [json |-> FALSE, value |-> [raw |-> "{not-json"]]
Parses(v) == v.json
JSONparse(v) == v.value

\* redis.set / redis.get / redis.exists on one key family
Put(f, k, v) == [x \in DOMAIN f \cup {k} |-> IF x = k THEN v ELSE f[x]]
redisSet(s, fam, k, v) == [s EXCEPT ![fam] = Put(s[fam], k, v)]
redisHas(s, fam, k) == k \in DOMAIN s[fam]
\* redis.setEx: the key lives until set time + ttl
redisSetEx(s, fam, k, ttl, v, t) ==
    [s EXCEPT ![fam] = Put(s[fam], k, [value |-> v, expires |-> t + ttl])]
redisLive(s, fam, k, t) == k \in DOMAIN s[fam] /\ t < s[fam][k].expires
\* redis.sAdd
redisSAdd(s, fam, k, m) ==
    [s EXCEPT ![fam] = Put(s[fam], k,
        (IF k \in DOMAIN s[fam] THEN s[fam][k] ELSE {}) \cup {m})]

\* uuidv4(): an id no key of the store uses yet (the least, as ids are opaque)
UsedIds(s) ==
    DOMAIN s.tenant \cup {k[2] : k \in DOMAIN s.user} \cup DOMAIN s.session
        \cup s.all \cup UNION {s.users[k] : k \in DOMAIN s.users}
FreshIds(s) == Uuids \ UsedIds(s)
uuidv4(s) == CHOOSE i \in FreshIds(s) : \A j \in FreshIds(s) : i <= j

\* ------------------------------------------------------------- passwords
\* bcrypt.hash(password, 10) and bcrypt.compare
\* bcrypt reads at most the first 72 bytes of the plaintext.
bcryptInput(p) == IF p \in LongPasswords THEN Prefix72 ELSE p
\* bcrypt.hash(password, 10): version and cost prefix, then the digest of the input read.
bcryptHash(p) == "$2b$10$" \o bcryptInput(p)
\* bcrypt.compare(password, hash): re-hash with the parameters of the hash and compare.
verifyPassword(p, h) == bcryptHash(p) = h

\* { ...a, ...b }
Spread(a, b) ==
    [k \in DOMAIN a \cup DOMAIN b |-> IF k \in DOMAIN b THEN b[k] ELSE a[k]]

\* a slip: the record is returned as stored
StripPassword_keep(u) == u

\* const { password, ...userWithoutPassword } = user
StripPassword(u) == [f \in DOMAIN u \ {"password"} |-> u[f]]

\* ----------------------------------------------------------------- tokens
\* what a request presents in its Authorization header
NoAuth == [kind |-> "none"]
Garbage == [kind |-> "garbage"]     \* a string that is no token signed with the secret

\* JWT.token.generate(claims, key, {ttlSec}) at instant t
Sign(userId, tenantId, role, t) ==
    [kind |-> "jwt", aud |-> "urn:audience:api", iss |-> "urn:issuer:api",
     userId |-> userId, tenantId |-> tenantId, role |-> role,
     iat |-> t, exp |-> t + ttlSec]

generateToken(user, tenantId, t) == Sign(user.userId, tenantId, user.role, t)

\* a token signed with the shared secret whose exp is chosen by the signer
SignWith(userId, tenantId, role, t, life) ==
    [Sign(userId, tenantId, role, t) EXCEPT !.exp = t + life]

\* a slip: the age of the token is not checked
VerifyTime_noMaxAge(tok, t) ==
    /\ tok.kind = "jwt"
    /\ tok.exp > t - timeSkewSec

\* the strategy's verify options: signature, exp and maxAgeSec with timeSkewSec
\* (tokens carry no nbf)
VerifyTime(tok, t) ==
    /\ tok.kind = "jwt"
    /\ tok.exp > t - timeSkewSec
    /\ t - tok.iat - timeSkewSec <= maxAgeSec

\* ------------------------------------------------------------- directory
\* a slip: logging out also drops the sessions
blacklistToken_dropSessions(s, token, t) ==
    [redisSetEx(s, "blacklist", token, blacklistTtl, "true", t) EXCEPT !.session = <<>>]

\* blacklistToken: one setEx on the blacklist key of the token
blacklistToken(s, token, t) ==
    redisSetEx(s, "blacklist", token, blacklistTtl, "true", t)

isTokenBlacklisted(s, token, t) == redisLive(s, "blacklist", token, t)

getTenant(s, tenantId) ==
    IF redisHas(s, "tenant", tenantId)
    THEN [found |-> TRUE, tenant |-> JSONparse(s.tenant[tenantId])]
    ELSE [found |-> FALSE]

\* a slip: the domain index is not consulted
getTenantByDomain_miss(s, domain) == [found |-> FALSE]

getTenantByDomain(s, domain) ==
    IF redisHas(s, "domain", domain)
    THEN getTenant(s, s.domain[domain])
    ELSE [found |-> FALSE]

\* a slip: the email is looked up in every tenant
getUserByEmail_anyTenant(s, tenantId, email) ==
    IF \E k \in DOMAIN s.email : k[2] = email /\ <<k[1], s.email[k]>> \in DOMAIN s.user
    THEN LET k == CHOOSE k \in DOMAIN s.email :
                     k[2] = email /\ <<k[1], s.email[k]>> \in DOMAIN s.user
         IN [found |-> TRUE, threw |-> FALSE, user |-> JSONparse(s.user[<<k[1], s.email[k]>>])]
    ELSE [found |-> FALSE, threw |-> FALSE]

\* getUserByEmail: the user with its password hash; throws on a value that
\* does not parse
getUserByEmail(s, tenantId, email) ==
    IF ~redisHas(s, "email", <<tenantId, email>>) THEN [found |-> FALSE, threw |-> FALSE]
    ELSE LET key == <<tenantId, s.email[<<tenantId, email>>]>> IN
         IF ~redisHas(s, "user", key) THEN [found |-> FALSE, threw |-> FALSE]
         ELSE IF ~Parses(s.user[key]) THEN [found |-> FALSE, threw |-> TRUE]
         ELSE [found |-> TRUE, threw |-> FALSE, user |-> JSONparse(s.user[key])]

getUser(s, tenantId, userId) ==
    IF ~redisHas(s, "user", <<tenantId, userId>>) THEN [found |-> FALSE, threw |-> FALSE]
    ELSE IF ~Parses(s.user[<<tenantId, userId>>]) THEN [found |-> FALSE, threw |-> TRUE]
    ELSE [found |-> TRUE, threw |-> FALSE,
          user |-> StripPassword(JSONparse(s.user[<<tenantId, userId>>]))]

\* the members of tenant:<tid>:users, in ascending id order
RECURSIVE SetToSeq(_)
SetToSeq(S) ==
    IF S = {} THEN <<>>
    ELSE LET m == CHOOSE x \in S : \A y \in S : x <= y
         IN <<m>> \o SetToSeq(S \ {m})

RECURSIVE LoadUsers(_, _, _)
LoadUsers(s, tenantId, ids) ==
    IF ids = <<>> THEN [threw |-> FALSE, users |-> <<>>]
    ELSE LET u == getUser(s, tenantId, Head(ids))
             rest == LoadUsers(s, tenantId, Tail(ids))
         IN IF u.threw \/ rest.threw THEN [threw |-> TRUE, users |-> <<>>]
            ELSE [threw |-> FALSE,
                  users |-> (IF u.found THEN <<u.user>> ELSE <<>>) \o rest.users]

\* a slip: an id without a record ends the listing with nothing
getAllUsers_stopAtMissing(s, tenantId) ==
    LET ids == IF redisHas(s, "users", tenantId) THEN s.users[tenantId] ELSE {}
    IN IF \E i \in ids : ~redisHas(s, "user", <<tenantId, i>>)
       THEN [threw |-> FALSE, users |-> <<>>]
       ELSE LoadUsers(s, tenantId, SetToSeq(ids))

getAllUsers(s, tenantId) ==
    LoadUsers(s, tenantId,
        SetToSeq(IF redisHas(s, "users", tenantId) THEN s.users[tenantId] ELSE {}))

\* createTenant, cut short after `n` of its three store writes (n >= 3: all)
NewTenant(s, data, t) ==
    [tenantId |-> uuidv4(s), name |-> data.name, domain |-> data.domain,
     status |-> "active", createdAt |-> t]

createTenant(s, data, t, n) ==
    LET tenant == NewTenant(s, data, t)
        s1 == IF n >= 1 THEN redisSet(s, "tenant", tenant.tenantId, JSONstringify(tenant)) ELSE s
        s2 == IF n >= 2 THEN [s1 EXCEPT !.all = @ \cup {tenant.tenantId}] ELSE s1
        s3 == IF n >= 3 THEN redisSet(s2, "domain", data.domain, tenant.tenantId) ELSE s2
    IN [store |-> s3, threw |-> n < 3, tenant |-> tenant]

\* createUser, cut short after `n` of its three store writes (n >= 3: all)
NewUser(s, tenantId, data, t) ==
    [userId |-> uuidv4(s), tenantId |-> tenantId, username |-> data.username,
     email |-> data.email, password |-> bcryptHash(data.password),
     role |-> IF "role" \in DOMAIN data THEN data.role ELSE "user",
     status |-> "active", createdAt |-> t]

createUser(s, tenantId, data, t, n) ==
    LET user == NewUser(s, tenantId, data, t)
        s1 == IF n >= 1
              THEN redisSet(s, "user", <<tenantId, user.userId>>, JSONstringify(user)) ELSE s
        s2 == IF n >= 2 THEN redisSAdd(s1, "users", tenantId, user.userId) ELSE s1
        s3 == IF n >= 3
              THEN redisSet(s2, "email", <<tenantId, data.email>>, user.userId) ELSE s2
    IN [store |-> s3, threw |-> n < 3, user |-> StripPassword(user)]

\* updateTenant: { ...tenant, ...updates, tenantId, updatedAt }, one store write
updateTenant(s, tenantId, updates, t) ==
    LET got == getTenant(s, tenantId)
        updated == Spread(Spread(got.tenant, updates),
                          [tenantId |-> tenantId, updatedAt |-> t])
    IN IF ~got.found THEN [store |-> s, found |-> FALSE]
       ELSE [store |-> redisSet(s, "tenant", tenantId, JSONstringify(updated)),
             found |-> TRUE, tenant |-> updated]

\* a slip: the updates are spread last, over the identity
updateUser_noPin(s, tenantId, userId, updates, t) ==
    LET key == <<tenantId, userId>>
        updated == Spread(Spread(JSONparse(s.user[key]), [updatedAt |-> t]), updates)
    IN IF ~redisHas(s, "user", key) THEN [store |-> s, found |-> FALSE, threw |-> FALSE]
       ELSE IF ~Parses(s.user[key]) THEN [store |-> s, found |-> FALSE, threw |-> TRUE]
       ELSE [store |-> redisSet(s, "user", key, JSONstringify(updated)),
             found |-> TRUE, threw |-> FALSE, user |-> StripPassword(updated)]

\* a slip: the tenantId of the updates is kept, only userId is pinned
updateUser_pinUserOnly(s, tenantId, userId, updates, t) ==
    LET key == <<tenantId, userId>>
        updated == Spread(Spread(JSONparse(s.user[key]), updates),
                          [userId |-> userId, updatedAt |-> t])
    IN IF ~redisHas(s, "user", key) THEN [store |-> s, found |-> FALSE, threw |-> FALSE]
       ELSE IF ~Parses(s.user[key]) THEN [store |-> s, found |-> FALSE, threw |-> TRUE]
       ELSE [store |-> redisSet(s, "user", key, JSONstringify(updated)),
             found |-> TRUE, threw |-> FALSE, user |-> StripPassword(updated)]

\* updateUser: { ...user, ...updates, userId, tenantId, updatedAt }, one store
\* write; the result is returned without the password
updateUser(s, tenantId, userId, updates, t) ==
    LET key == <<tenantId, userId>>
        updated == Spread(Spread(JSONparse(s.user[key]), updates),
                          [userId |-> userId, tenantId |-> tenantId, updatedAt |-> t])
    IN IF ~redisHas(s, "user", key) THEN [store |-> s, found |-> FALSE, threw |-> FALSE]
       ELSE IF ~Parses(s.user[key]) THEN [store |-> s, found |-> FALSE, threw |-> TRUE]
       ELSE [store |-> redisSet(s, "user", key, JSONstringify(updated)),
             found |-> TRUE, threw |-> FALSE, user |-> StripPassword(updated)]

\* createSession: one setEx with the fixed ttl
createSession(s, tenantId, userId, t) ==
    LET session == [sessionId |-> uuidv4(s), tenantId |-> tenantId, userId |-> userId,
                    loginTime |-> t, createdAt |-> t]
    IN [store |-> redisSetEx(s, "session", session.sessionId, sessionTtl,
                             JSONstringify(session), t),
        session |-> session]

\* getSession: one get; an expired key is gone
getSession(s, sessionId, t) ==
    IF redisLive(s, "session", sessionId, t)
    THEN [found |-> TRUE, session |-> JSONparse(s.session[sessionId].value)]
    ELSE [found |-> FALSE]

\* deleteSession: one del
deleteSession(s, sessionId) ==
    [s EXCEPT !.session = [k \in DOMAIN s.session \ {sessionId} |-> s.session[k]]]

\* ------------------------------------------------------------- auth gate
\* the store call of validate that throws, if any
ValidateFaults == {"none", "getClient", "blacklist", "tenant", "user"}

Invalid == [isValid |-> FALSE, threw |-> FALSE]

\* a slip: the admin role is granted the admin tag alone
Scope_adminTagOnly(role) == IF role = "admin" THEN {"admin"} ELSE {"user"}

Scope(role) == IF role = "admin" THEN {"admin", "user"} ELSE {"user"}

\* a slip: the blacklist is not consulted
validate_noBlacklist(s, tok, t, fault) ==
    IF fault # "none" THEN Invalid
    ELSE IF ~redisHas(s, "tenant", tok.tenantId) THEN Invalid
    ELSE IF ~redisHas(s, "user", <<tok.tenantId, tok.userId>>) THEN Invalid
    ELSE IF ~Parses(s.user[<<tok.tenantId, tok.userId>>]) THEN Invalid
    ELSE LET user == JSONparse(s.user[<<tok.tenantId, tok.userId>>])
         IN [isValid |-> TRUE, threw |-> FALSE,
             credentials |-> [user |-> StripPassword(user),
                              tenantId |-> tok.tenantId,
                              scope |-> Scope(user.role)]]

\* a slip: the principal is built from the token's claims, without the store
validate_trustClaims(s, tok, t, fault) ==
    IF fault \in {"getClient", "blacklist"} THEN Invalid
    ELSE IF redisLive(s, "blacklist", tok, t) THEN Invalid
    ELSE [isValid |-> TRUE, threw |-> FALSE,
          credentials |-> [user |-> [userId |-> tok.userId, tenantId |-> tok.tenantId,
                                     role |-> tok.role],
                           tenantId |-> tok.tenantId,
                           scope |-> Scope(tok.role)]]

\* a slip: no try/catch, so a throw leaves validate
validate_noCatch(s, tok, t, fault) ==
    LET Threw == [isValid |-> FALSE, threw |-> TRUE] IN
    IF fault = "getClient" THEN Threw
    ELSE IF fault = "blacklist" THEN Threw
    ELSE IF redisLive(s, "blacklist", tok, t) THEN Invalid
    ELSE IF fault = "tenant" THEN Threw
    ELSE IF ~redisHas(s, "tenant", tok.tenantId) THEN Invalid
    ELSE IF fault = "user" THEN Threw
    ELSE IF ~redisHas(s, "user", <<tok.tenantId, tok.userId>>) THEN Invalid
    ELSE IF ~Parses(s.user[<<tok.tenantId, tok.userId>>]) THEN Threw
    ELSE LET user == JSONparse(s.user[<<tok.tenantId, tok.userId>>])
         IN [isValid |-> TRUE, threw |-> FALSE,
             credentials |-> [user |-> StripPassword(user),
                              tenantId |-> tok.tenantId,
                              scope |-> Scope(user.role)]]

\* a slip: the credentials carry the user as stored
validate_keepPassword(s, tok, t, fault) ==
    IF fault # "none" THEN Invalid
    ELSE IF redisLive(s, "blacklist", tok, t) THEN Invalid
    ELSE IF ~redisHas(s, "tenant", tok.tenantId) THEN Invalid
    ELSE IF ~redisHas(s, "user", <<tok.tenantId, tok.userId>>) THEN Invalid
    ELSE IF ~Parses(s.user[<<tok.tenantId, tok.userId>>]) THEN Invalid
    ELSE LET user == JSONparse(s.user[<<tok.tenantId, tok.userId>>])
         IN [isValid |-> TRUE, threw |-> FALSE,
             credentials |-> [user |-> user,
                              tenantId |-> tok.tenantId,
                              scope |-> Scope(user.role)]]

\* a slip: validate also requires the tenant to be active
validate_checksStatus(s, tok, t, fault) ==
    IF fault # "none" THEN Invalid
    ELSE IF redisLive(s, "blacklist", tok, t) THEN Invalid
    ELSE IF ~redisHas(s, "tenant", tok.tenantId) THEN Invalid
    ELSE IF JSONparse(s.tenant[tok.tenantId]).status # "active" THEN Invalid
    ELSE IF ~redisHas(s, "user", <<tok.tenantId, tok.userId>>) THEN Invalid
    ELSE IF ~Parses(s.user[<<tok.tenantId, tok.userId>>]) THEN Invalid
    ELSE LET user == JSONparse(s.user[<<tok.tenantId, tok.userId>>])
         IN [isValid |-> TRUE, threw |-> FALSE,
             credentials |-> [user |-> StripPassword(user),
                              tenantId |-> tok.tenantId,
                              scope |-> Scope(user.role)]]

\* a slip: validate also requires a live session of the user
validate_needsSession(s, tok, t, fault) ==
    IF fault # "none" THEN Invalid
    ELSE IF redisLive(s, "blacklist", tok, t) THEN Invalid
    ELSE IF ~redisHas(s, "tenant", tok.tenantId) THEN Invalid
    ELSE IF ~redisHas(s, "user", <<tok.tenantId, tok.userId>>) THEN Invalid
    ELSE IF ~Parses(s.user[<<tok.tenantId, tok.userId>>]) THEN Invalid
    ELSE IF ~\E k \in DOMAIN s.session :
                /\ redisLive(s, "session", k, t)
                /\ JSONparse(s.session[k].value).userId = tok.userId
         THEN Invalid
    ELSE LET user == JSONparse(s.user[<<tok.tenantId, tok.userId>>])
         IN [isValid |-> TRUE, threw |-> FALSE,
             credentials |-> [user |-> StripPassword(user),
                              tenantId |-> tok.tenantId,
                              scope |-> Scope(user.role)]]

\* a slip: the capability set is taken from the role claim of the token
validate_scopeFromClaim(s, tok, t, fault) ==
    IF fault # "none" THEN Invalid
    ELSE IF redisLive(s, "blacklist", tok, t) THEN Invalid
    ELSE IF ~redisHas(s, "tenant", tok.tenantId) THEN Invalid
    ELSE IF ~redisHas(s, "user", <<tok.tenantId, tok.userId>>) THEN Invalid
    ELSE IF ~Parses(s.user[<<tok.tenantId, tok.userId>>]) THEN Invalid
    ELSE LET user == JSONparse(s.user[<<tok.tenantId, tok.userId>>])
         IN [isValid |-> TRUE, threw |-> FALSE,
             credentials |-> [user |-> StripPassword(user),
                              tenantId |-> tok.tenantId,
                              scope |-> Scope(tok.role)]]

\* validate(artifacts): blacklist, tenant, user, then the credentials; every
\* throw inside the try block returns { isValid: false }
validate(s, tok, t, fault) ==
    IF fault = "getClient" THEN Invalid
    ELSE IF fault = "blacklist" THEN Invalid
    ELSE IF redisLive(s, "blacklist", tok, t) THEN Invalid
    ELSE IF fault = "tenant" THEN Invalid
    ELSE IF ~redisHas(s, "tenant", tok.tenantId) THEN Invalid
    ELSE IF fault = "user" THEN Invalid
    ELSE IF ~redisHas(s, "user", <<tok.tenantId, tok.userId>>) THEN Invalid
    ELSE IF ~Parses(s.user[<<tok.tenantId, tok.userId>>]) THEN Invalid
    ELSE LET user == JSONparse(s.user[<<tok.tenantId, tok.userId>>])
         IN [isValid |-> TRUE, threw |-> FALSE,
             credentials |-> [user |-> StripPassword(user),
                              tenantId |-> tok.tenantId,
                              scope |-> Scope(user.role)]]

\* a slip: the three store calls are issued whatever the earlier ones answer
validateReads_all(s, tok, t, fault) == <<"blacklist", "tenant", "user">>

\* the store calls one run of validate issues, in order: exists on the
\* blacklist key, exists on the tenant key, get on the user key
validateReads(s, tok, t, fault) ==
    IF fault = "getClient" THEN <<>>
    ELSE IF fault = "blacklist" THEN <<"blacklist">>
    ELSE IF redisLive(s, "blacklist", tok, t) THEN <<"blacklist">>
    ELSE IF fault = "tenant" THEN <<"blacklist", "tenant">>
    ELSE IF ~redisHas(s, "tenant", tok.tenantId) THEN <<"blacklist", "tenant">>
    ELSE <<"blacklist", "tenant", "user">>

\* the store command behind each call of validate
CallOf(name, tok) ==
    CASE name = "blacklist" -> [verb |-> "exists", fam |-> "blacklist", key |-> tok]
      [] name = "tenant" -> [verb |-> "exists", fam |-> "tenant", key |-> tok.tenantId]
      [] name = "user" -> [verb |-> "get", fam |-> "user", key |-> <<tok.tenantId, tok.userId>>]

\* a slip: a token found on the blacklist has its entry deleted
validateCalls_del(s, tok, t, fault) ==
    [i \in 1..Len(validateReads(s, tok, t, fault)) |->
        [CallOf(validateReads(s, tok, t, fault)[i], tok) EXCEPT !.verb = "del"]]

\* the store commands one run of validate sends
validateCalls(s, tok, t, fault) ==
    [i \in 1..Len(validateReads(s, tok, t, fault)) |->
        CallOf(validateReads(s, tok, t, fault)[i], tok)]

\* what a command leaves of the store: exists and get leave it as it is, del
\* removes the key
redisEffect(s, c) ==
    IF c.verb \in {"exists", "get"} THEN s
    ELSE [s EXCEPT ![c.fam] = [k \in DOMAIN s[c.fam] \ {c.key} |-> s[c.fam][k]]]

RECURSIVE redisRun(_, _)
redisRun(s, calls) ==
    IF calls = <<>> THEN s ELSE redisRun(redisEffect(s, Head(calls)), Tail(calls))

\* the 'jwt' scheme: a missing header, a string that does not verify, or a
\* token validate rejects is unauthorized
authenticate(s, auth, t, fault) ==
    IF auth.kind # "jwt" THEN Invalid
    ELSE IF ~VerifyTime(auth, t) THEN Invalid
    ELSE validate(s, auth, t, fault)

\* ------------------------------------------------------ request lifecycle
\* server.route(...): init() of server.ts registers authRoutes and docsRoutes;
\* a server may also register llmRoutes (the routes module exports them)
InitRoutes == {"authRoutes", "docsRoutes"}
LlmRoutes == InitRoutes \cup {"llmRoutes"}

\* a slip: the user routes carry no scope
RouteCfg_noScope(route) ==
    CASE route \in {"register", "login"} ->
            [table |-> "authRoutes", auth |-> FALSE, scope |-> {}]
      [] route \in {"logout", "me", "createUser", "listUsers"} ->
            [table |-> "authRoutes", auth |-> TRUE, scope |-> {}]
      [] route \in {"chat", "models"} ->
            [table |-> "llmRoutes", auth |-> TRUE, scope |-> {}]

\* route options: table, auth strategy, required scope
RouteCfg(route) ==
    CASE route = "register"   -> [table |-> "authRoutes", auth |-> FALSE, scope |-> {}]
      [] route = "login"      -> [table |-> "authRoutes", auth |-> FALSE, scope |-> {}]
      [] route = "logout"     -> [table |-> "authRoutes", auth |-> TRUE, scope |-> {}]
      [] route = "me"         -> [table |-> "authRoutes", auth |-> TRUE, scope |-> {}]
      [] route = "createUser" -> [table |-> "authRoutes", auth |-> TRUE, scope |-> {"admin"}]
      [] route = "listUsers"  -> [table |-> "authRoutes", auth |-> TRUE, scope |-> {"admin"}]
      [] route = "chat"       -> [table |-> "llmRoutes", auth |-> TRUE, scope |-> {}]
      [] route = "models"     -> [table |-> "llmRoutes", auth |-> TRUE, scope |-> {}]

NoBody == [none |-> TRUE]
ErrorBody(status, error, message) ==
    [statusCode |-> status, error |-> error, message |-> message]

\* a Boom error as onPreResponse writes it out
Boom(status, message) ==
    [status |-> status, message |-> message,
     body |-> ErrorBody(status,
        CASE status = 400 -> "Bad Request"
          [] status = 401 -> "Unauthorized"
          [] status = 403 -> "Forbidden"
          [] status = 404 -> "Not Found"
          [] status = 409 -> "Conflict"
          [] status = 500 -> "Internal Server Error"
          [] status = 502 -> "Bad Gateway",
        message)]

Ok(status, body) == [status |-> status, message |-> "", body |-> body]

\* the steps of a request before its handler: route lookup, authentication
\* (an error thrown by the scheme is an internal error), scope, then validation
\* of headers and payload (inputError = "" when the input matches the route's
\* schemas). stop = TRUE: the request ends here.
Gate(route, m, s, auth, t, vfault, inputError) ==
    LET cfg == RouteCfg(route)
        a == IF cfg.auth THEN authenticate(s, auth, t, vfault) ELSE Invalid
    IN IF cfg.table \notin m
       THEN [stop |-> TRUE, auth |-> Invalid, out |-> Boom(404, "Not Found")]
       ELSE IF cfg.auth /\ a.threw
       THEN [stop |-> TRUE, auth |-> a, out |-> Boom(500, "An internal server error occurred")]
       ELSE IF cfg.auth /\ ~a.isValid
       THEN [stop |-> TRUE, auth |-> a, out |-> Boom(401, "Unauthorized")]
       ELSE IF cfg.auth /\ ~(cfg.scope \subseteq a.credentials.scope)
       THEN [stop |-> TRUE, auth |-> a, out |-> Boom(403, "Insufficient scope")]
       ELSE IF inputError # ""
       THEN [stop |-> TRUE, auth |-> a, out |-> Boom(400, inputError)]
       ELSE [stop |-> FALSE, auth |-> a, out |-> NoBody]

\* a request: its route and everything the client and the environment choose
Req(route, auth, hdr, payload, vfault, f, outcome) ==
    [route |-> route, auth |-> auth, hdr |-> hdr, payload |-> payload,
     vfault |-> vfault, f |-> f, outcome |-> outcome]

\* the record of a served request: the request, the instant, the store before
\* and after, what authentication yielded, and the response
Served(rq, before, after, t, g, out, ran, calls) ==
    [route |-> rq.route, auth |-> rq.auth, hdr |-> rq.hdr, payload |-> rq.payload,
     vfault |-> rq.vfault, f |-> rq.f, outcome |-> rq.outcome,
     at |-> t, before |-> before, after |-> after, gate |-> g.auth,
     status |-> out.status, message |-> out.message, body |-> out.body,
     handlerRan |-> ran, ollamaCalls |-> calls]

NoRequest ==
    [route |-> "none", auth |-> NoAuth, hdr |-> NoHeader, payload |-> NoBody,
     vfault |-> "none", f |-> 0, outcome |-> "none",
     at |-> 0, before |-> EmptyStore, after |-> EmptyStore, gate |-> Invalid,
     status |-> 0, message |-> "", body |-> NoBody,
     handlerRan |-> FALSE, ollamaCalls |-> 0]

\* ----------------------------------------------------------------- handlers
\* Every handler takes `f`, the index of the store call of the handler that
\* throws (0: none); it returns the store it leaves and its response.

PayloadError(p) ==
    IF "tenantId" \in DOMAIN p \/ StrLen(p.password) < passwordMin
    THEN "Invalid request payload input" ELSE ""

\* POST /api/auth/register
registerHandler(s, p, t, f) ==
    LET idx == redisHas(s, "domain", p.domain)
        reads == IF idx THEN 2 ELSE 1
        existing == getTenantByDomain(s, p.domain)
        w == IF f = 0 THEN 6 ELSE f - reads - 1
        ct == createTenant(s, [name |-> p.tenantName, domain |-> p.domain], t, w)
        cu == createUser(ct.store, ct.tenant.tenantId,
                [username |-> p.username, email |-> p.email,
                 password |-> p.password, role |-> "admin"], t, w - 3)
        token == generateToken(cu.user, ct.tenant.tenantId, t)
    IN IF f \in 1..reads
       THEN [store |-> s, issued |-> {}, out |-> Boom(500, "Failed to register tenant")]
       ELSE IF existing.found
       THEN [store |-> s, issued |-> {},
             out |-> Boom(409, "Tenant with this domain already exists")]
       ELSE IF ct.threw
       THEN [store |-> ct.store, issued |-> {},
             out |-> Boom(500, "Failed to register tenant")]
       ELSE IF cu.threw
       THEN [store |-> cu.store, issued |-> {},
             out |-> Boom(500, "Failed to register tenant")]
       ELSE [store |-> cu.store, issued |-> {token},
             out |-> Ok(201,
                [message |-> "Tenant and admin user created successfully",
                 tenant |-> [tenantId |-> ct.tenant.tenantId, name |-> ct.tenant.name,
                             domain |-> ct.tenant.domain],
                 user |-> cu.user, token |-> token])]

\* POST /api/auth/logout
logoutHandler(s, token, t, f) ==
    IF f = 1
    THEN [store |-> s, out |-> Boom(500, "Failed to logout")]
    ELSE [store |-> blacklistToken(s, token, t),
          out |-> Ok(200, [message |-> "Logout successful"])]

\* GET /api/auth/me
meHandler(s, cred, f) ==
    LET tenant == getTenant(s, cred.tenantId)
    IN IF f = 1
       THEN Boom(500, "Failed to get user information")
       ELSE Ok(200, [user |-> cred.user,
                     tenant |-> IF tenant.found
                                THEN [tenantId |-> tenant.tenant.tenantId,
                                      name |-> tenant.tenant.name,
                                      domain |-> tenant.tenant.domain]
                                ELSE NoBody])

\* a slip: the user's status is checked before the password
loginHandler_statusFirst(s, p, t, f) ==
    LET byDomain == p.by = "domain"
        idx == byDomain /\ redisHas(s, "domain", p.domain)
        tenantReads == IF byDomain /\ idx THEN 2 ELSE 1
        tenant == IF byDomain THEN getTenantByDomain(s, p.domain)
                  ELSE getTenant(s, p.tenantId)
        tid == tenant.tenant.tenantId
        hasEmail == redisHas(s, "email", <<tid, p.email>>)
        userReads == IF hasEmail THEN 2 ELSE 1
        u == getUserByEmail(s, tid, p.email)
        user == StripPassword(u.user)
        token == generateToken(user, tid, t)
        cs == createSession(s, tid, u.user.userId, t)
        failed == [store |-> s, issued |-> {}, out |-> Boom(500, "Failed to login")]
    IN IF f \in 1..tenantReads THEN failed
       ELSE IF ~tenant.found
       THEN [store |-> s, issued |-> {}, out |-> Boom(404, "Tenant not found")]
       ELSE IF tenant.tenant.status # "active"
       THEN [store |-> s, issued |-> {}, out |-> Boom(403, "Tenant is not active")]
       ELSE IF f \in (tenantReads + 1)..(tenantReads + userReads) \/ u.threw THEN failed
       ELSE IF ~u.found
       THEN [store |-> s, issued |-> {}, out |-> Boom(401, "Invalid credentials")]
       ELSE IF u.user.status # "active"
       THEN [store |-> s, issued |-> {}, out |-> Boom(403, "User account is not active")]
       ELSE IF ~verifyPassword(p.password, u.user.password)
       THEN [store |-> s, issued |-> {}, out |-> Boom(401, "Invalid credentials")]
       ELSE IF f = tenantReads + userReads + 1 THEN failed
       ELSE [store |-> cs.store, issued |-> {token},
             out |-> Ok(200,
                [message |-> "Login successful", token |-> token, user |-> user,
                 tenant |-> [tenantId |-> tid, name |-> tenant.tenant.name,
                             domain |-> tenant.tenant.domain],
                 sessionId |-> cs.session.sessionId])]

\* POST /api/auth/login; p.by names the tenant by "tenantId" or by "domain"
loginHandler(s, p, t, f) ==
    LET byDomain == p.by = "domain"
        idx == byDomain /\ redisHas(s, "domain", p.domain)
        tenantReads == IF byDomain /\ idx THEN 2 ELSE 1
        tenant == IF byDomain THEN getTenantByDomain(s, p.domain)
                  ELSE getTenant(s, p.tenantId)
        tid == tenant.tenant.tenantId
        hasEmail == redisHas(s, "email", <<tid, p.email>>)
        userReads == IF hasEmail THEN 2 ELSE 1
        u == getUserByEmail(s, tid, p.email)
        user == StripPassword(u.user)
        token == generateToken(user, tid, t)
        cs == createSession(s, tid, u.user.userId, t)
        failed == [store |-> s, issued |-> {}, out |-> Boom(500, "Failed to login")]
    IN IF f \in 1..tenantReads THEN failed
       ELSE IF ~tenant.found
       THEN [store |-> s, issued |-> {}, out |-> Boom(404, "Tenant not found")]
       ELSE IF tenant.tenant.status # "active"
       THEN [store |-> s, issued |-> {}, out |-> Boom(403, "Tenant is not active")]
       ELSE IF f \in (tenantReads + 1)..(tenantReads + userReads) \/ u.threw THEN failed
       ELSE IF ~u.found
       THEN [store |-> s, issued |-> {}, out |-> Boom(401, "Invalid credentials")]
       ELSE IF ~verifyPassword(p.password, u.user.password)
       THEN [store |-> s, issued |-> {}, out |-> Boom(401, "Invalid credentials")]
       ELSE IF u.user.status # "active"
       THEN [store |-> s, issued |-> {}, out |-> Boom(403, "User account is not active")]
       ELSE IF f = tenantReads + userReads + 1 THEN failed
       ELSE [store |-> cs.store, issued |-> {token},
             out |-> Ok(200,
                [message |-> "Login successful", token |-> token, user |-> user,
                 tenant |-> [tenantId |-> tid, name |-> tenant.tenant.name,
                             domain |-> tenant.tenant.domain],
                 sessionId |-> cs.session.sessionId])]

\* a slip: the catch block wraps every error, the handler's own included
createUserHandler_wrapAll(s, cred, p, t, f) ==
    LET hasEmail == redisHas(s, "email", <<cred.tenantId, p.email>>)
        reads == IF hasEmail THEN 2 ELSE 1
        existing == getUserByEmail(s, cred.tenantId, p.email)
        w == IF f = 0 THEN 3 ELSE f - reads - 1
        cu == createUser(s, cred.tenantId, p, t, w)
    IN IF f \in 1..reads \/ existing.threw \/ existing.found
       THEN [store |-> s, out |-> Boom(500, "Failed to create user")]
       ELSE IF cu.threw
       THEN [store |-> cu.store, out |-> Boom(500, "Failed to create user")]
       ELSE [store |-> cu.store,
             out |-> Ok(201, [message |-> "User created successfully", user |-> cu.user])]

\* POST /api/users (payload after Joi: role defaults to 'user')
createUserHandler(s, cred, p, t, f) ==
    LET hasEmail == redisHas(s, "email", <<cred.tenantId, p.email>>)
        reads == IF hasEmail THEN 2 ELSE 1
        existing == getUserByEmail(s, cred.tenantId, p.email)
        w == IF f = 0 THEN 3 ELSE f - reads - 1
        cu == createUser(s, cred.tenantId, p, t, w)
    IN IF f \in 1..reads \/ existing.threw
       THEN [store |-> s, out |-> Boom(500, "Failed to create user")]
       ELSE IF existing.found
       THEN [store |-> s,
             out |-> Boom(409, "User with this email already exists in tenant")]
       ELSE IF cu.threw
       THEN [store |-> cu.store, out |-> Boom(500, "Failed to create user")]
       ELSE [store |-> cu.store,
             out |-> Ok(201, [message |-> "User created successfully", user |-> cu.user])]

\* a slip: the listing reads the first user-id set of the store, not the caller's
listUsersHandler_anyTenant(s, cred, f) ==
    LET first == CHOOSE i \in DOMAIN s.users : \A j \in DOMAIN s.users : i <= j
        r == getAllUsers(s, first)
    IN IF f = 1 \/ r.threw
       THEN Boom(500, "Failed to get users")
       ELSE Ok(200, [users |-> r.users, count |-> Len(r.users)])

\* GET /api/users
listUsersHandler(s, cred, f) ==
    LET r == getAllUsers(s, cred.tenantId)
        calls == 1 + (IF redisHas(s, "users", cred.tenantId)
                      THEN Cardinality(s.users[cred.tenantId]) ELSE 0)
    IN IF f \in 1..calls \/ r.threw
       THEN Boom(500, "Failed to get users")
       ELSE Ok(200, [users |-> r.users, count |-> Len(r.users)])

\* --------------------------------------------------------------- LLM proxy
\* what the inference service does with a call
OllamaOutcomes == {"ok", "error", "timeout"}

\* the chat response of the inference service (its contract's fields)
OllamaChatResponse(model) ==
    [model |-> model, created_at |-> "2024-01-15T10:30:00Z",
     message |-> [role |-> "assistant", content |-> "Paris."], done |-> TRUE]

OllamaModels == [models |-> <<[name |-> "llama2"]>>]

\* what the inference service returns for the request posted to it: the whole
\* response, or, when asked to stream, the first chunk of one
OllamaReply(sent) ==
    IF sent.stream
    THEN [model |-> sent.model, created_at |-> "2024-01-15T10:30:00Z",
          message |-> [role |-> "assistant", content |-> "Par"], done |-> FALSE]
    ELSE OllamaChatResponse(sent.model)

\* a slip: the request is posted as given
chat_asGiven(request, outcome) ==
    IF outcome = "ok"
    THEN [threw |-> FALSE, sent |-> request, data |-> OllamaReply(request)]
    ELSE [threw |-> TRUE, sent |-> request,
          error |-> IF outcome = "timeout"
                    THEN "Ollama request failed: timeout of 120000ms exceeded"
                    ELSE "Ollama request failed: connect ECONNREFUSED"]

\* OllamaService.chat: the request goes out with stream: false; an axios
\* error (upstream status, transport failure, timeout) is rethrown as Error
chat(request, outcome) ==
    LET sent == [request EXCEPT !.stream = FALSE]
    IN IF outcome = "ok"
       THEN [threw |-> FALSE, sent |-> sent, data |-> OllamaReply(sent)]
       ELSE [threw |-> TRUE, sent |-> sent,
             error |-> IF outcome = "timeout"
                       THEN "Ollama request failed: timeout of 120000ms exceeded"
                       ELSE "Ollama request failed: connect ECONNREFUSED"]

listModels(outcome) ==
    IF outcome = "ok" THEN [threw |-> FALSE, data |-> OllamaModels]
    ELSE [threw |-> TRUE,
          error |-> IF outcome = "timeout"
                    THEN "Failed to fetch models: timeout of 120000ms exceeded"
                    ELSE "Failed to fetch models: connect ECONNREFUSED"]

\* headers schema of the LLM routes: 'x-tenant-id' is a required uuid
HeaderError(hdr) ==
    IF hdr.kind = "uuid" THEN "" ELSE "Invalid request headers input"

\* a slip: a failed inference call is made a second time, and that one answers
chatHandler_retry(cred, hdr, p, outcome) ==
    LET request == IF p.stream THEN [p EXCEPT !.stream = FALSE] ELSE p
        r == chat(request, "ok")
    IN IF hdr.id # cred.tenantId
       THEN [calls |-> 0, sent |-> NoBody,
             out |-> Boom(403, "Tenant ID does not match authenticated user")]
       ELSE [calls |-> IF outcome = "ok" THEN 1 ELSE 2, sent |-> r.sent,
             out |-> Ok(200, Spread(r.data, [tenant_id |-> cred.tenantId,
                                             user_id |-> cred.user.userId]))]

\* POST /api/llm/chat
chatHandler(cred, hdr, p, outcome) ==
    LET request == IF p.stream THEN [p EXCEPT !.stream = FALSE] ELSE p
        r == chat(request, outcome)
    IN IF hdr.id # cred.tenantId
       THEN [calls |-> 0, sent |-> NoBody,
             out |-> Boom(403, "Tenant ID does not match authenticated user")]
       ELSE IF r.threw
       THEN [calls |-> 1, sent |-> r.sent,
             out |-> Boom(500, "Failed to process chat request")]
       ELSE [calls |-> 1, sent |-> r.sent,
             out |-> Ok(200, Spread(r.data, [tenant_id |-> cred.tenantId,
                                             user_id |-> cred.user.userId]))]

\* GET /api/llm/models
modelsHandler(cred, hdr, outcome) ==
    LET r == listModels(outcome)
    IN IF hdr.id # cred.tenantId
       THEN [calls |-> 0, out |-> Boom(403, "Tenant ID does not match authenticated user")]
       ELSE IF r.threw
       THEN [calls |-> 1, out |-> Boom(500, "Failed to fetch models")]
       ELSE [calls |-> 1,
             out |-> Ok(200, Spread(r.data, [tenant_id |-> cred.tenantId]))]

\* ------------------------------------------------------------ store client
\* socket.reconnectStrategy(retries): the delay before the next attempt, or an
\* Error that ends the reconnection
reconnectStrategy_noLimit(retries) == [error |-> FALSE, delay |-> retries * reconnectStepMs]

reconnectStrategy(retries) ==
    IF retries > reconnectLimit
    THEN [error |-> TRUE, message |-> "Redis connection failed"]
    ELSE [error |-> FALSE, delay |-> retries * reconnectStepMs]

\* ------------------------------------------------------------------ inputs
Presentable == {NoAuth, Garbage} \cup tokens

RegisterPayloads(domains, emails) ==
    [tenantName : TenantNames, domain : domains, username : Usernames,
     email : emails, password : Passwords]

LoginPayloads(domains, ids, emails) ==
    [by : {"domain"}, domain : domains, email : emails, password : Passwords]
    \cup [by : {"tenantId"}, tenantId : ids, email : emails, password : Passwords]

CreateUserPayloads(emails) ==
    [username : Usernames, email : emails, password : Passwords, role : Roles]

\* a create-user payload that names a tenant, which createUserSchema has no key for
NamingTenant(ids) ==
    [username : Usernames, email : {"bob@acme.com"}, password : {"SecurePass123"},
     role : {"user"}, tenantId : ids]

ChatPayloads ==
    [model : {"llama2"},
     messages : {<<[role |-> "user", content |-> "What is the capital of France?"]>>},
     stream : BOOLEAN]

\* claims of the tokens signed outside generateToken: ids that name the first
\* tenant or nothing in the store
MintClaims ==
    {[userId |-> MaxUuid, tenantId |-> t, role |-> "user"] : t \in {1, MaxUuid}}

\* ----------------------------------------------------------------- actions
Init ==
    /\ now = 0
    /\ ticks = 0
    /\ mounted \in {InitRoutes, LlmRoutes}
    /\ redis = EmptyStore
    /\ tokens = {}
    /\ resp = NoRequest
    /\ inflight = {}

\* the clock advances
Tick(d) ==
    /\ ticks < MaxTicks
    /\ now' = now + d
    /\ ticks' = ticks + 1
    /\ UNCHANGED <<mounted, redis, tokens, resp, inflight>>

\* a holder of the shared secret signs a token with claims of its choosing
MintToken(userId, tenantId, role) ==
    /\ Cardinality(tokens \cup {Sign(userId, tenantId, role, now)}) <= MaxTokens
    /\ tokens' = tokens \cup {Sign(userId, tenantId, role, now)}
    /\ UNCHANGED <<now, ticks, mounted, redis, resp, inflight>>

\* another writer of the store leaves a value that is not JSON at a user key
StoreCorrupt(key) ==
    /\ key \in DOMAIN redis.user
    /\ redis.user[key] # Malformed
    /\ redis' = redisSet(redis, "user", key, Malformed)
    /\ UNCHANGED <<now, ticks, mounted, tokens, resp, inflight>>

Register(p, f) ==
    LET rq == Req("register", NoAuth, NoHeader, p, "none", f, "none")
        g == Gate("register", mounted, redis, NoAuth, now, "none", PayloadError(p))
        h == registerHandler(redis, p, now, f)
    IN /\ IF g.stop
          THEN /\ resp' = Served(rq, redis, redis, now, g, g.out, FALSE, 0)
               /\ UNCHANGED <<redis, tokens>>
          ELSE /\ Cardinality(FreshIds(redis)) >= 2
               /\ Cardinality(tokens \cup h.issued) <= MaxTokens
               /\ redis' = h.store
               /\ tokens' = tokens \cup h.issued
               /\ resp' = Served(rq, redis, h.store, now, g, h.out, TRUE, 0)
       /\ UNCHANGED <<now, ticks, mounted, inflight>>

Login(p, f) ==
    LET rq == Req("login", NoAuth, NoHeader, p, "none", f, "none")
        g == Gate("login", mounted, redis, NoAuth, now, "none", "")
        h == loginHandler(redis, p, now, f)
    IN /\ IF g.stop
          THEN /\ resp' = Served(rq, redis, redis, now, g, g.out, FALSE, 0)
               /\ UNCHANGED <<redis, tokens>>
          ELSE /\ h.issued # {} =>
                    /\ Cardinality(FreshIds(redis)) >= 1
                    /\ Cardinality(DOMAIN redis.session) < MaxSessions
               /\ Cardinality(tokens \cup h.issued) <= MaxTokens
               /\ redis' = h.store
               /\ tokens' = tokens \cup h.issued
               /\ resp' = Served(rq, redis, h.store, now, g, h.out, TRUE, 0)
       /\ UNCHANGED <<now, ticks, mounted, inflight>>

Logout(auth, vfault, f) ==
    LET rq == Req("logout", auth, NoHeader, NoBody, vfault, f, "none")
        g == Gate("logout", mounted, redis, auth, now, vfault, "")
        h == logoutHandler(redis, auth, now, f)
    IN /\ IF g.stop
          THEN /\ resp' = Served(rq, redis, redis, now, g, g.out, FALSE, 0)
               /\ UNCHANGED redis
          ELSE /\ redis' = h.store
               /\ resp' = Served(rq, redis, h.store, now, g, h.out, TRUE, 0)
       /\ UNCHANGED <<now, ticks, mounted, tokens, inflight>>

Me(auth, vfault, f) ==
    LET rq == Req("me", auth, NoHeader, NoBody, vfault, f, "none")
        g == Gate("me", mounted, redis, auth, now, vfault, "")
    IN /\ resp' = IF g.stop
                  THEN Served(rq, redis, redis, now, g, g.out, FALSE, 0)
                  ELSE Served(rq, redis, redis, now, g,
                              meHandler(redis, g.auth.credentials, f), TRUE, 0)
       /\ UNCHANGED <<now, ticks, mounted, redis, tokens, inflight>>

CreateUser(auth, vfault, p, f) ==
    LET rq == Req("createUser", auth, NoHeader, p, vfault, f, "none")
        g == Gate("createUser", mounted, redis, auth, now, vfault, PayloadError(p))
        h == createUserHandler(redis, g.auth.credentials, p, now, f)
    IN /\ IF g.stop
          THEN /\ resp' = Served(rq, redis, redis, now, g, g.out, FALSE, 0)
               /\ UNCHANGED redis
          ELSE /\ Cardinality(FreshIds(redis)) >= 1
               /\ redis' = h.store
               /\ resp' = Served(rq, redis, h.store, now, g, h.out, TRUE, 0)
       /\ UNCHANGED <<now, ticks, mounted, tokens, inflight>>

ListUsers(auth, vfault, f) ==
    LET rq == Req("listUsers", auth, NoHeader, NoBody, vfault, f, "none")
        g == Gate("listUsers", mounted, redis, auth, now, vfault, "")
    IN /\ resp' = IF g.stop
                  THEN Served(rq, redis, redis, now, g, g.out, FALSE, 0)
                  ELSE Served(rq, redis, redis, now, g,
                              listUsersHandler(redis, g.auth.credentials, f), TRUE, 0)
       /\ UNCHANGED <<now, ticks, mounted, redis, tokens, inflight>>

LlmChat(auth, vfault, hdr, p, outcome) ==
    LET rq == Req("chat", auth, hdr, p, vfault, 0, outcome)
        g == Gate("chat", mounted, redis, auth, now, vfault, HeaderError(hdr))
        h == chatHandler(g.auth.credentials, hdr, p, outcome)
    IN /\ resp' = IF g.stop
                  THEN Served(rq, redis, redis, now, g, g.out, FALSE, 0)
                  ELSE Served(rq, redis, redis, now, g, h.out, TRUE, h.calls)
       /\ UNCHANGED <<now, ticks, mounted, redis, tokens, inflight>>

LlmModels(auth, vfault, hdr, outcome) ==
    LET rq == Req("models", auth, hdr, NoBody, vfault, 0, outcome)
        g == Gate("models", mounted, redis, auth, now, vfault, HeaderError(hdr))
        h == modelsHandler(g.auth.credentials, hdr, outcome)
    IN /\ resp' = IF g.stop
                  THEN Served(rq, redis, redis, now, g, g.out, FALSE, 0)
                  ELSE Served(rq, redis, redis, now, g, h.out, TRUE, h.calls)
       /\ UNCHANGED <<now, ticks, mounted, redis, tokens, inflight>>

\* ------------------------------------- handlers suspended at their awaits
\* the register handler from `createTenant` on, once getTenantByDomain has
\* resolved to null
registerResume(s, p, t) ==
    LET ct == createTenant(s, [name |-> p.tenantName, domain |-> p.domain], t, 3)
        cu == createUser(ct.store, ct.tenant.tenantId,
                [username |-> p.username, email |-> p.email,
                 password |-> p.password, role |-> "admin"], t, 3)
        token == generateToken(cu.user, ct.tenant.tenantId, t)
    IN [store |-> cu.store, issued |-> {token},
        out |-> Ok(201,
           [message |-> "Tenant and admin user created successfully",
            tenant |-> [tenantId |-> ct.tenant.tenantId, name |-> ct.tenant.name,
                        domain |-> ct.tenant.domain],
            user |-> cu.user, token |-> token])]

\* the POST /api/users handler from `createUser` on, once getUserByEmail has
\* resolved to null
createUserResume(s, cred, p, t) ==
    LET cu == createUser(s, cred.tenantId, p, t, 3)
    IN [store |-> cu.store,
        out |-> Ok(201, [message |-> "User created successfully", user |-> cu.user])]

\* a request waiting to be resumed: the request, what authentication yielded
\* and a tag that tells it from the other requests in flight
Suspended(rq, g) ==
    [rid |-> CHOOSE n \in 1..MaxInflight :
                 /\ n \notin {r.rid : r \in inflight}
                 /\ \A m \in 1..MaxInflight : m \notin {r.rid : r \in inflight} => n <= m,
     rq |-> rq, gate |-> g]

\* POST /api/auth/register up to the answer of getTenantByDomain
RegisterCheck(p) ==
    LET rq == Req("register", NoAuth, NoHeader, p, "none", 0, "none")
        g == Gate("register", mounted, redis, NoAuth, now, "none", PayloadError(p))
        existing == getTenantByDomain(redis, p.domain)
    IN /\ IF g.stop
          THEN /\ resp' = Served(rq, redis, redis, now, g, g.out, FALSE, 0)
               /\ UNCHANGED inflight
          ELSE IF existing.found
          THEN /\ resp' = Served(rq, redis, redis, now, g,
                                 Boom(409, "Tenant with this domain already exists"), TRUE, 0)
               /\ UNCHANGED inflight
          ELSE /\ Cardinality(inflight) < MaxInflight
               /\ inflight' = inflight \cup {Suspended(rq, g)}
               /\ UNCHANGED resp
       /\ UNCHANGED <<now, ticks, mounted, redis, tokens>>

\* the rest of a suspended POST /api/auth/register
RegisterCreate(r) ==
    LET h == registerResume(redis, r.rq.payload, now)
    IN /\ r \in inflight
       /\ r.rq.route = "register"
       /\ Cardinality(FreshIds(redis)) >= 2
       /\ Cardinality(tokens \cup h.issued) <= MaxTokens
       /\ redis' = h.store
       /\ tokens' = tokens \cup h.issued
       /\ resp' = Served(r.rq, redis, h.store, now, r.gate, h.out, TRUE, 0)
       /\ inflight' = inflight \ {r}
       /\ UNCHANGED <<now, ticks, mounted>>

\* POST /api/users up to the answer of getUserByEmail
CreateUserCheck(auth, p) ==
    LET rq == Req("createUser", auth, NoHeader, p, "none", 0, "none")
        g == Gate("createUser", mounted, redis, auth, now, "none", PayloadError(p))
        existing == getUserByEmail(redis, g.auth.credentials.tenantId, p.email)
    IN /\ IF g.stop
          THEN /\ resp' = Served(rq, redis, redis, now, g, g.out, FALSE, 0)
               /\ UNCHANGED inflight
          ELSE IF existing.threw
          THEN /\ resp' = Served(rq, redis, redis, now, g,
                                 Boom(500, "Failed to create user"), TRUE, 0)
               /\ UNCHANGED inflight
          ELSE IF existing.found
          THEN /\ resp' = Served(rq, redis, redis, now, g,
                          Boom(409, "User with this email already exists in tenant"), TRUE, 0)
               /\ UNCHANGED inflight
          ELSE /\ Cardinality(inflight) < MaxInflight
               /\ inflight' = inflight \cup {Suspended(rq, g)}
               /\ UNCHANGED resp
       /\ UNCHANGED <<now, ticks, mounted, redis, tokens>>

\* the rest of a suspended POST /api/users
CreateUserCreate(r) ==
    LET h == createUserResume(redis, r.gate.auth.credentials, r.rq.payload, now)
    IN /\ r \in inflight
       /\ r.rq.route = "createUser"
       /\ Cardinality(FreshIds(redis)) >= 1
       /\ redis' = h.store
       /\ resp' = Served(r.rq, redis, h.store, now, r.gate, h.out, TRUE, 0)
       /\ inflight' = inflight \ {r}
       /\ UNCHANGED <<now, ticks, mounted, tokens>>

\* ------------------------------------------------- the directory, called directly
\* the record of a call of a TenantService method: the method, its arguments,
\* the instant, the store before and after, and what it returned (found = FALSE
\* for null)
Called(op, args, before, after, t, found, value) ==
    [route |-> op, args |-> args, at |-> t, before |-> before, after |-> after,
     result |-> [found |-> found, value |-> value]]

TenantData(domains) == [name : TenantNames, domain : domains]

\* CreateUserData: role is optional
UserData(emails) ==
    [username : Usernames, email : emails, password : {"SecurePass123"}]
    \cup [username : Usernames, email : emails, password : {"SecurePass123"}, role : {"admin"}]

\* UpdateTenantData, and an update that names the identity
TenantUpdates(domains) ==
    {[tenantId |-> MaxUuid, domain |-> d, status |-> "suspended"] : d \in domains}

\* UpdateUserData, and updates that name the identity or the password
UserUpdates(emails) ==
    {[userId |-> MaxUuid, tenantId |-> MaxUuid, email |-> e, status |-> "inactive",
      password |-> bcryptHash("short")] : e \in emails}

CallCreateTenant(data) ==
    LET r == createTenant(redis, data, now, 3) IN
    /\ Cardinality(FreshIds(redis)) >= 1
    /\ Cardinality(DOMAIN redis.tenant) < MaxTenants
    /\ redis' = r.store
    /\ resp' = Called("tenantService.createTenant", [data |-> data],
                      redis, r.store, now, TRUE, r.tenant)
    /\ UNCHANGED <<now, ticks, mounted, tokens, inflight>>

CallUpdateTenant(tenantId, updates) ==
    LET r == updateTenant(redis, tenantId, updates, now) IN
    /\ redis' = r.store
    /\ resp' = Called("tenantService.updateTenant",
                      [tenantId |-> tenantId, updates |-> updates],
                      redis, r.store, now, r.found,
                      IF r.found THEN r.tenant ELSE NoBody)
    /\ UNCHANGED <<now, ticks, mounted, tokens, inflight>>

CallCreateUser(tenantId, data) ==
    LET r == createUser(redis, tenantId, data, now, 3) IN
    /\ Cardinality(FreshIds(redis)) >= 1
    /\ redis' = r.store
    /\ resp' = Called("tenantService.createUser", [tenantId |-> tenantId, data |-> data],
                      redis, r.store, now, TRUE, r.user)
    /\ UNCHANGED <<now, ticks, mounted, tokens, inflight>>

CallGetUserByEmail(tenantId, email) ==
    LET r == getUserByEmail(redis, tenantId, email) IN
    /\ resp' = Called("tenantService.getUserByEmail",
                      [tenantId |-> tenantId, email |-> email],
                      redis, redis, now, r.found, IF r.found THEN r.user ELSE NoBody)
    /\ UNCHANGED <<now, ticks, mounted, redis, tokens, inflight>>

CallGetUser(tenantId, userId) ==
    LET r == getUser(redis, tenantId, userId) IN
    /\ resp' = Called("tenantService.getUser", [tenantId |-> tenantId, userId |-> userId],
                      redis, redis, now, r.found, IF r.found THEN r.user ELSE NoBody)
    /\ UNCHANGED <<now, ticks, mounted, redis, tokens, inflight>>

CallGetAllUsers(tenantId) ==
    LET r == getAllUsers(redis, tenantId) IN
    /\ resp' = Called("tenantService.getAllUsers", [tenantId |-> tenantId],
                      redis, redis, now, TRUE, r.users)
    /\ UNCHANGED <<now, ticks, mounted, redis, tokens, inflight>>

CallUpdateUser(tenantId, userId, updates) ==
    LET r == updateUser(redis, tenantId, userId, updates, now) IN
    /\ redis' = r.store
    /\ resp' = Called("tenantService.updateUser",
                      [tenantId |-> tenantId, userId |-> userId, updates |-> updates],
                      redis, r.store, now, r.found, IF r.found THEN r.user ELSE NoBody)
    /\ UNCHANGED <<now, ticks, mounted, tokens, inflight>>

\* a user key leaves the store (DEL by another writer, eviction); the indexes
\* that name it stay
StoreEvict(key) ==
    /\ key \in DOMAIN redis.user
    /\ Cardinality((UNION {redis.users[k] : k \in DOMAIN redis.users})
                       \ {k[2] : k \in DOMAIN redis.user}) < MaxEvicted
    /\ redis' = [redis EXCEPT !.user = [k \in DOMAIN redis.user \ {key} |-> redis.user[k]]]
    /\ UNCHANGED <<now, ticks, mounted, tokens, resp, inflight>>

\* createUser data with a choice of passwords
PasswordData(passwords) ==
    [username : Usernames, email : {"bob@acme.com"}, password : passwords]

\* verifyPassword(plainPassword, hashedPassword), on the hash a user record holds
CallVerifyPassword(p, key) ==
    /\ key \in DOMAIN redis.user
    /\ Parses(redis.user[key])
    /\ LET h == JSONparse(redis.user[key]).password IN
       resp' = Called("tenantService.verifyPassword", [password |-> p, hash |-> h],
                      redis, redis, now, TRUE, verifyPassword(p, h))
    /\ UNCHANGED <<now, ticks, mounted, redis, tokens, inflight>>

\* UpdateTenantData and UpdateUserData that change the status only
TenantStatusUpdates == {[status |-> x] : x \in {"inactive", "suspended"}}
UserStatusUpdates == {[status |-> "inactive"]}

CallDeleteSession(sessionId) ==
    LET after == deleteSession(redis, sessionId) IN
    /\ redis' = after
    /\ resp' = Called("tenantService.deleteSession", [sessionId |-> sessionId],
                      redis, after, now, TRUE, NoBody)
    /\ UNCHANGED <<now, ticks, mounted, tokens, inflight>>

\* the lifetimes a signer other than generateToken gives: one second, or far
\* longer than the strategy's maximum age
ForgedLives == {1, 3 * ttlSec}

\* clock steps that cross the skew window and the token lifetime
SkewJumps == {1, timeSkewSec + 1, ttlSec}

\* a holder of the shared secret signs a token for an existing user, with an
\* exp of its choosing
MintForged(key, life) ==
    LET tok == SignWith(key[2], key[1], "admin", now, life) IN
    /\ key \in DOMAIN redis.user
    /\ Cardinality(tokens \cup {tok}) <= MaxTokens
    /\ tokens' = tokens \cup {tok}
    /\ UNCHANGED <<now, ticks, mounted, redis, resp, inflight>>

\* OllamaService.chat(request, tenantId), called by a caller of the service
CallChat(p, outcome) ==
    LET r == chat(p, outcome) IN
    /\ resp' = Called("ollamaService.chat", [request |-> p, outcome |-> outcome],
                      redis, redis, now, ~r.threw, r)
    /\ UNCHANGED <<now, ticks, mounted, redis, tokens, inflight>>

CallGetSession(sessionId) ==
    LET r == getSession(redis, sessionId, now) IN
    /\ resp' = Called("tenantService.getSession", [sessionId |-> sessionId],
                      redis, redis, now, r.found, IF r.found THEN r.session ELSE NoBody)
    /\ UNCHANGED <<now, ticks, mounted, redis, tokens, inflight>>

\* the store client consults reconnectStrategy; loop = TRUE: the client does so
\* itself while it reconnects, `waited` is the sum of the delays so far
Reconnecting(retries, waited, loop) ==
    LET r == reconnectStrategy(retries) IN
    Called("redisClient.reconnectStrategy",
           [retries |-> retries, waited |-> waited, loop |-> loop],
           redis, redis, now, ~r.error, r)

\* reconnectStrategy called with a retry count
CallReconnectStrategy(retries) ==
    /\ resp' = Reconnecting(retries, 0, FALSE)
    /\ UNCHANGED <<now, ticks, mounted, redis, tokens, inflight>>

\* the socket closes: the client starts to reconnect
SocketDrop ==
    /\ ~(resp.route = "redisClient.reconnectStrategy" /\ resp.args.loop)
    /\ resp' = Reconnecting(0, 0, TRUE)
    /\ UNCHANGED <<now, ticks, mounted, redis, tokens, inflight>>

\* the attempt made after the delay fails too
SocketRetry ==
    /\ resp.route = "redisClient.reconnectStrategy" /\ resp.args.loop
    /\ resp.result.found
    /\ resp' = Reconnecting(resp.args.retries + 1,
                            resp.args.waited + resp.result.value.delay, TRUE)
    /\ UNCHANGED <<now, ticks, mounted, redis, tokens, inflight>>

\* the attempt made after the delay connects
SocketReady ==
    /\ resp.route = "redisClient.reconnectStrategy" /\ resp.args.loop
    /\ resp.result.found
    /\ resp' = Called("redisClient.ready", resp.args, redis, redis, now, TRUE, NoBody)
    /\ UNCHANGED <<now, ticks, mounted, redis, tokens, inflight>>

\* ------------------------------------- inference calls waiting for an answer
\* the axios timer of a call made at t (the clock counts seconds)
Deadline(t) == t + ollamaTimeoutMs \div 1000

\* a slip: the client is created without a timeout
TimedOut_never(r, t) == FALSE

\* the timer of the call has run out
TimedOut(r, t) == t >= r.deadline

\* an LLM request suspended at its call of the inference service
Waiting(rq, g, t) ==
    [rid |-> Suspended(rq, g).rid, rq |-> rq, gate |-> g, deadline |-> Deadline(t)]

\* POST /api/llm/chat or GET /api/llm/models up to the call of the service
LlmSend(route, auth, hdr, p) ==
    LET rq == Req(route, auth, hdr, p, "none", 0, "none")
        g == Gate(route, mounted, redis, auth, now, "none", HeaderError(hdr))
    IN /\ IF g.stop
          THEN /\ resp' = Served(rq, redis, redis, now, g, g.out, FALSE, 0)
               /\ UNCHANGED inflight
          ELSE IF hdr.id # g.auth.credentials.tenantId
          THEN /\ resp' = Served(rq, redis, redis, now, g,
                                 Boom(403, "Tenant ID does not match authenticated user"),
                                 TRUE, 0)
               /\ UNCHANGED inflight
          ELSE /\ Cardinality(inflight) < MaxInflight
               /\ ticks < MaxTicks
               /\ inflight' = inflight \cup {Waiting(rq, g, now)}
               /\ UNCHANGED resp
       /\ UNCHANGED <<now, ticks, mounted, redis, tokens>>

\* the rest of the handler, once the call has an outcome
LlmResume(r, outcome) ==
    LET rq == [r.rq EXCEPT !.outcome = outcome]
        h == IF rq.route = "chat"
             THEN chatHandler(r.gate.auth.credentials, rq.hdr, rq.payload, outcome)
             ELSE modelsHandler(r.gate.auth.credentials, rq.hdr, outcome)
    IN /\ resp' = Served(rq, redis, redis, now, r.gate, h.out, TRUE, h.calls)
       /\ inflight' = inflight \ {r}
       /\ UNCHANGED <<now, ticks, mounted, redis, tokens>>

\* the inference service answers, or the connection fails, before the timer
OllamaAnswers(r, outcome) ==
    /\ r \in inflight
    /\ r.rq.route \in {"chat", "models"}
    /\ ~TimedOut(r, now)
    /\ LlmResume(r, outcome)

\* the timer runs out: axios rejects with 'timeout of 120000ms exceeded'
OllamaTimeout(r) ==
    /\ r \in inflight
    /\ r.rq.route \in {"chat", "models"}
    /\ TimedOut(r, now)
    /\ LlmResume(r, "timeout")

\* time passes until the next timer is due
TimerTick ==
    /\ inflight # {}
    /\ \A r \in inflight : now < r.deadline
    /\ now' = CHOOSE t \in {r.deadline : r \in inflight} :
                 \A r \in inflight : t <= r.deadline
    /\ ticks' = ticks + 1
    /\ UNCHANGED <<mounted, redis, tokens, resp, inflight>>

\* UpdateUserData that change the role only
RoleUpdates == {[role |-> x] : x \in Roles}

\* ----------------------------------------------------------- specifications
\* the routes of authRoutes and the token signer
Next ==
    \/ \E c \in MintClaims : MintToken(c.userId, c.tenantId, c.role)
    \/ \E p \in RegisterPayloads({"acme.com"}, {"admin@acme.com"}) : Register(p, 0)
    \/ \E p \in LoginPayloads({"acme.com"}, {1}, Emails) : Login(p, 0)
    \/ \E a \in Presentable : Logout(a, "none", 0)
    \/ \E a \in Presentable : Me(a, "none", 0)
    \/ \E a \in Presentable, p \in CreateUserPayloads(Emails) : CreateUser(a, "none", p, 0)
    \/ \E a \in Presentable : ListUsers(a, "none", 0)

Spec == Init /\ [][Next]_vars

\* token validation against a store that fails or holds values that do not parse
NextFault ==
    \/ \E p \in RegisterPayloads({"acme.com"}, {"admin@acme.com"}) : Register(p, 0)
    \/ \E k \in DOMAIN redis.user : StoreCorrupt(k)
    \/ \E a \in Presentable, v \in ValidateFaults, f \in {0, 1} : Me(a, v, f)
    \/ \E a \in Presentable, v \in ValidateFaults, f \in {0, 1} : ListUsers(a, v, f)
    \/ \E a \in Presentable, v \in ValidateFaults, f \in {0, 1} : Logout(a, v, f)

SpecFault == Init /\ [][NextFault]_vars

\* tokens and blacklist entries as time passes
NextTime ==
    \/ \E d \in Jumps : Tick(d)
    \/ \E p \in RegisterPayloads({"acme.com"}, {"admin@acme.com"}) : Register(p, 0)
    \/ \E a \in Presentable : Logout(a, "none", 0)
    \/ \E a \in Presentable : Me(a, "none", 0)

SpecTime == Init /\ [][NextTime]_vars

\* the LLM proxy routes, on a server that has a tenant registered
NextLlm ==
    \/ \E p \in RegisterPayloads(Domains, {"admin@acme.com"}) : Register(p, 0)
    \/ \E a \in Presentable, h \in HeaderValues, p \in ChatPayloads,
          o \in OllamaOutcomes : LlmChat(a, "none", h, p, o)
    \/ \E a \in Presentable, h \in HeaderValues, o \in OllamaOutcomes :
          LlmModels(a, "none", h, o)
    \/ \E p \in ChatPayloads, o \in OllamaOutcomes : CallChat(p, o)

SpecLlm == Init /\ [][NextLlm]_vars

\* the methods of the directory, called by a caller of the service
\* the user keys a caller updates or another writer removes: the oldest one
FirstUserKeys(s) ==
    {k \in DOMAIN s.user : \A j \in DOMAIN s.user : k[2] <= j[2]}

NextDir ==
    \/ \E d \in TenantData({"acme.com"}) : CallCreateTenant(d)
    \/ \E i \in {1, MaxUuid}, u \in TenantUpdates({"beta.io"}) : CallUpdateTenant(i, u)
    \/ \E i \in DOMAIN redis.tenant \cap {1}, d \in UserData({"bob@acme.com"}) :
          CallCreateUser(i, d)
    \/ \E i \in DOMAIN redis.tenant \cap {1}, e \in Emails : CallGetUserByEmail(i, e)
    \/ \E k \in FirstUserKeys(redis) \cup {<<1, MaxUuid>>} : CallGetUser(k[1], k[2])
    \/ \E i \in {1, MaxUuid} : CallGetAllUsers(i)
    \/ \E k \in FirstUserKeys(redis) \cup {<<1, MaxUuid>>},
          u \in UserUpdates({"admin@acme.com"}) : CallUpdateUser(k[1], k[2], u)
    \/ \E k \in FirstUserKeys(redis) : StoreEvict(k)

SpecDir == Init /\ [][NextDir]_vars

\* several tenants, each with its admin creating users
NextTenants ==
    \/ \E p \in RegisterPayloads(Domains, Emails) : Register(p, 0)
    \/ \E a \in Presentable, p \in CreateUserPayloads(Emails) : CreateUser(a, "none", p, 0)
    \/ \E a \in tokens, p \in NamingTenant(DOMAIN redis.tenant) : CreateUser(a, "none", p, 0)
    \/ \E a \in Presentable : ListUsers(a, "none", 0)

SpecTenants == Init /\ [][NextTenants]_vars

\* requests in flight together, each resumed when its store call returns, and
\* updates of the records
NextRace ==
    \/ \E p \in {q \in RegisterPayloads(Domains, {"admin@acme.com"}) : PayloadError(q) = ""} :
          RegisterCheck(p)
    \/ \E r \in inflight : RegisterCreate(r)
    \/ \E a \in tokens,
          p \in {q \in CreateUserPayloads({"bob@acme.com"}) :
                    PayloadError(q) = "" /\ q.role = "user"} : CreateUserCheck(a, p)
    \/ \E r \in inflight : CreateUserCreate(r)
    \/ \E i \in DOMAIN redis.tenant \cap {1}, u \in TenantUpdates({"acme.com"}) :
          CallUpdateTenant(i, u)
    \/ \E k \in FirstUserKeys(redis), u \in UserUpdates({"bob@acme.com"}) :
          CallUpdateUser(k[1], k[2], u)

SpecRace == Init /\ [][NextRace]_vars

\* the plaintexts a caller verifies: short, empty, longer than 72 bytes, or a stored hash
VerifyInputs(s) ==
    Passwords \cup {""} \cup LongPasswords
        \cup {JSONparse(s.user[k]).password : k \in DOMAIN s.user}

\* passwords hashed by createUser and verified afterwards
NextPassword ==
    \/ \E d \in TenantData({"acme.com"}) : CallCreateTenant(d)
    \/ \E i \in DOMAIN redis.tenant \cap {1},
          d \in PasswordData({"SecurePass123"} \cup LongPasswords) : CallCreateUser(i, d)
    \/ \E k \in DOMAIN redis.user, p \in VerifyInputs(redis) : CallVerifyPassword(p, k)

SpecPassword == Init /\ [][NextPassword]_vars

\* logins against tenants and users whose status changes
NextLogin ==
    \/ \E p \in RegisterPayloads({"acme.com"}, {"admin@acme.com"}) : Register(p, 0)
    \/ \E i \in DOMAIN redis.tenant \cap {1}, u \in TenantStatusUpdates : CallUpdateTenant(i, u)
    \/ \E k \in FirstUserKeys(redis), u \in UserStatusUpdates : CallUpdateUser(k[1], k[2], u)
    \/ \E p \in LoginPayloads(Domains, {1, MaxUuid}, Emails) : Login(p, 0)
    \/ \E a \in Presentable : Me(a, "none", 0)

SpecLogin == Init /\ [][NextLogin]_vars

\* sessions created by login, deleted, or left to expire while tokens are used
NextSession ==
    \/ \E d \in Jumps : Tick(d)
    \/ \E p \in RegisterPayloads({"acme.com"}, {"admin@acme.com"}) : Register(p, 0)
    \/ \E p \in LoginPayloads({"acme.com"}, {1}, {"admin@acme.com"}) : Login(p, 0)
    \/ \E i \in DOMAIN redis.session : CallDeleteSession(i)
    \/ \E a \in Presentable : Me(a, "none", 0)

SpecSession == Init /\ [][NextSession]_vars

\* tokens of existing users, with any exp, presented as the clock advances
NextClock ==
    \/ \E d \in SkewJumps : Tick(d)
    \/ \E p \in RegisterPayloads({"acme.com"}, {"admin@acme.com"}) : Register(p, 0)
    \/ \E k \in DOMAIN redis.user, l \in ForgedLives : MintForged(k, l)
    \/ \E a \in Presentable : Me(a, "none", 0)

SpecClock == Init /\ [][NextClock]_vars

\* requests whose store calls or inference call fail
NextOnce ==
    \/ \E p \in RegisterPayloads({"acme.com"}, {"admin@acme.com"}) : Register(p, 0)
    \/ \E a \in Presentable, v \in ValidateFaults, f \in {0, 1} : Me(a, v, f)
    \/ \E a \in Presentable, v \in ValidateFaults, f \in {0, 1} : ListUsers(a, v, f)
    \/ \E a \in Presentable, h \in {UuidHeader(1), UuidHeader(MaxUuid)}, p \in ChatPayloads,
          o \in OllamaOutcomes : LlmChat(a, "none", h, p, o)
    \/ \E a \in Presentable, h \in {UuidHeader(1), UuidHeader(MaxUuid)},
          o \in OllamaOutcomes : LlmModels(a, "none", h, o)

SpecOnce == Init /\ [][NextOnce]_vars

\* every route that uses the store, served while store calls fail
NextStore ==
    \/ \E p \in RegisterPayloads({"acme.com"}, {"admin@acme.com"}), f \in {0, 1} :
          Register(p, f)
    \/ \E p \in LoginPayloads({"acme.com"}, {MaxUuid}, {"bob@acme.com"}), f \in {0, 1} :
          Login(p, f)
    \/ \E a \in Presentable, v \in {"none", "blacklist"}, f \in {0, 1} : Logout(a, v, f)
    \/ \E a \in Presentable, v \in {"none", "tenant"}, f \in {0, 1} : Me(a, v, f)
    \/ \E a \in tokens, v \in {"none", "getClient"}, f \in {0, 1},
          p \in {q \in CreateUserPayloads(Emails) : PayloadError(q) = "" /\ q.role = "user"} :
          CreateUser(a, v, p, f)
    \/ \E a \in Presentable, v \in {"none", "user"}, f \in {0, 1} : ListUsers(a, v, f)

SpecStore == Init /\ [][NextStore]_vars

\* logins that create sessions, and logouts
NextLogout ==
    \/ Tick(1)
    \/ \E p \in RegisterPayloads({"acme.com"}, {"admin@acme.com"}) : Register(p, 0)
    \/ \E p \in LoginPayloads({"acme.com"}, {1}, {"admin@acme.com"}) : Login(p, 0)
    \/ \E a \in Presentable : Logout(a, "none", 0)
    \/ \E i \in Uuids : CallGetSession(i)
    \/ \E a \in Presentable : Me(a, "none", 0)

SpecLogout == Init /\ [][NextLogout]_vars

\* the store client losing and regaining its socket while the server runs
NextReconnect ==
    \/ \E p \in RegisterPayloads({"acme.com"}, {"admin@acme.com"}) : Register(p, 0)
    \/ \E n \in 0..MaxRetries : CallReconnectStrategy(n)
    \/ SocketDrop
    \/ SocketRetry
    \/ SocketReady

SpecReconnect == Init /\ [][NextReconnect]_vars

\* LLM requests in flight while the inference service answers or stays silent
NextWait ==
    \/ \E p \in RegisterPayloads({"acme.com"}, {"admin@acme.com"}) : Register(p, 0)
    \/ \E a \in Presentable, h \in {UuidHeader(1), UuidHeader(MaxUuid)},
          p \in {q \in ChatPayloads : ~q.stream} : LlmSend("chat", a, h, p)
    \/ \E a \in Presentable, h \in {UuidHeader(1), UuidHeader(MaxUuid)} :
          LlmSend("models", a, h, NoBody)
    \/ \E r \in inflight, o \in {"ok", "error"} : OllamaAnswers(r, o)
    \/ \E r \in inflight : OllamaTimeout(r)
    \/ TimerTick

\* time passes, and a timer that is due fires
SpecWaitLive ==
    /\ Init /\ [][NextWait]_vars
    /\ WF_vars(TimerTick)
    /\ WF_vars(\E r \in inflight : OllamaTimeout(r))

\* roles changed while tokens issued earlier are presented
NextRole ==
    \/ \E p \in RegisterPayloads({"acme.com"}, {"admin@acme.com"}) : Register(p, 0)
    \/ \E p \in {q \in LoginPayloads({"acme.com"}, {1}, {"admin@acme.com"}) :
                    q.by = "domain" /\ q.password = "SecurePass123"} : Login(p, 0)
    \/ \E k \in FirstUserKeys(redis), u \in RoleUpdates : CallUpdateUser(k[1], k[2], u)
    \/ \E a \in Presentable : ListUsers(a, "none", 0)
    \/ \E a \in Presentable : Me(a, "none", 0)

SpecRole == Init /\ [][NextRole]_vars

\* the four writing methods of the directory, called in any order
NextIndex ==
    \/ \E d \in TenantData({"acme.com"}) : CallCreateTenant(d)
    \/ \E i \in DOMAIN redis.tenant \cap {1}, u \in TenantUpdates({"beta.io"}) :
          CallUpdateTenant(i, u)
    \/ \E i \in DOMAIN redis.tenant \cap {1}, d \in UserData({"bob@acme.com"}) :
          CallCreateUser(i, d)
    \/ \E k \in FirstUserKeys(redis), u \in UserUpdates({"admin@acme.com"}) :
          CallUpdateUser(k[1], k[2], u)

SpecIndex == Init /\ [][NextIndex]_vars

\* the store call of a registration that fails: none, the domain lookup, one of
\* the three writes of createTenant, or one of the three writes of createUser
RegisterFaults == 0..7

\* registrations cut short by a failing store call
NextRegister ==
    \/ \E p \in RegisterPayloads({"acme.com"}, {"admin@acme.com"}), f \in RegisterFaults :
          Register(p, f)
    \/ /\ FreshIds(redis) # {}
       /\ \E p \in LoginPayloads({"acme.com"}, {1}, {"admin@acme.com"}) : Login(p, 0)
    \/ \E a \in Presentable : Me(a, "none", 0)

SpecRegister == Init /\ [][NextRegister]_vars

\* updates that name the tenant and the user of another record of the store
ForeignIdentity(s, key) ==
    {[tenantId |-> i, userId |-> j, role |-> "user"] :
        i \in DOMAIN s.tenant \ {key[1]}, j \in {k[2] : k \in DOMAIN s.user} \ {key[2]}}

\* two tenants, users created and updated by a caller of the service, and the
\* tokens of both tenants presented
NextPrincipal ==
    \/ \E p \in {q \in RegisterPayloads(Domains, {"admin@acme.com"}) :
                    q.password = "SecurePass123"} : Register(p, 0)
    \/ /\ FreshIds(redis) # {}
       /\ \E p \in {q \in LoginPayloads(Domains, {1}, {"admin@acme.com"}) :
                       q.by = "domain" /\ q.password = "SecurePass123"} : Login(p, 0)
    \/ \E i \in DOMAIN redis.tenant, d \in UserData({"bob@acme.com"}) : CallCreateUser(i, d)
    \/ \E k \in DOMAIN redis.user :
          \E u \in ForeignIdentity(redis, k) : CallUpdateUser(k[1], k[2], u)
    \/ \E a \in Presentable : Me(a, "none", 0)

SpecPrincipal == Init /\ [][NextPrincipal]_vars

\* ------------------------------------------------------------------ claims
\* what the auth gate makes of the request recorded in r
Principal(r) == authenticate(r.before, r.auth, r.at, r.vfault)

\* r was served by a route that requires authentication
GuardedAuth(r) == r.route \in {"logout", "me", "createUser", "listUsers"}
GuardedLlm(r) == r.route \in {"chat", "models"}

\* the token of r names a tenant and a user whose records are in the store
TenantThere(r) == redisHas(r.before, "tenant", r.auth.tenantId)
UserThere(r) == redisHas(r.before, "user", <<r.auth.tenantId, r.auth.userId>>)
UserParses(r) == UserThere(r) /\ Parses(r.before.user[<<r.auth.tenantId, r.auth.userId>>])

\* C1: once blacklistToken(t) has run, every later request that presents t
\* at an instant at which t passes the signature and time checks is answered
\* 401 (the blacklist entry outlives the token)
C1_LogoutOutlivesToken ==
    (/\ GuardedAuth(resp)
     /\ resp.auth.kind = "jwt"
     /\ resp.auth \in DOMAIN resp.before.blacklist
     /\ VerifyTime(resp.auth, resp.at))
    => resp.status = 401

\* C2: a request whose token has a live blacklist key is answered 401 and
\* yields no principal, whatever the tenant and user records hold and whether
\* or not a store call fails
C2_BlacklistedRejected ==
    (/\ GuardedAuth(resp)
     /\ resp.auth.kind = "jwt"
     /\ isTokenBlacklisted(resp.before, resp.auth, resp.at))
    => (resp.status = 401 /\ ~resp.gate.isValid /\ ~resp.handlerRan)

\* C2 witness: a token that would be admitted but for its blacklist key
C2_Witness ==
    /\ GuardedAuth(resp)
    /\ resp.auth.kind = "jwt"
    /\ isTokenBlacklisted(resp.before, resp.auth, resp.at)
    /\ VerifyTime(resp.auth, resp.at)
    /\ resp.vfault = "none"
    /\ TenantThere(resp)
    /\ UserParses(resp)
    /\ resp.status = 401

\* C3: a signed, unexpired, non-blacklisted token whose tenant record is
\* absent, or whose user record is absent under an existing tenant, is answered
\* 401: no principal is produced and the handler does not run
C3_UnknownTenantOrUserRejected ==
    (/\ GuardedAuth(resp)
     /\ resp.auth.kind = "jwt"
     /\ VerifyTime(resp.auth, resp.at)
     /\ ~isTokenBlacklisted(resp.before, resp.auth, resp.at)
     /\ (~TenantThere(resp) \/ ~UserThere(resp)))
    => (resp.status = 401 /\ ~resp.gate.isValid /\ ~resp.handlerRan)

\* C3 witness: the tenant exists, the user does not
C3_Witness ==
    /\ GuardedAuth(resp)
    /\ resp.auth.kind = "jwt"
    /\ VerifyTime(resp.auth, resp.at)
    /\ ~isTokenBlacklisted(resp.before, resp.auth, resp.at)
    /\ TenantThere(resp)
    /\ ~UserThere(resp)
    /\ resp.status = 401

\* C4: when a store call of the validation throws, or the stored user value
\* is not JSON, the request is answered 401: it is not admitted and not
\* answered with another error
C4_FailClosed ==
    (/\ GuardedAuth(resp)
     /\ resp.auth.kind = "jwt"
     /\ VerifyTime(resp.auth, resp.at)
     /\ (resp.vfault # "none" \/ (UserThere(resp) /\ ~UserParses(resp))))
    => (resp.status = 401 /\ ~resp.gate.isValid /\ ~resp.handlerRan)

\* C4 witness: the only thing wrong is a user value that does not parse
C4_Witness ==
    /\ GuardedAuth(resp)
    /\ resp.auth.kind = "jwt"
    /\ VerifyTime(resp.auth, resp.at)
    /\ resp.vfault = "none"
    /\ ~isTokenBlacklisted(resp.before, resp.auth, resp.at)
    /\ TenantThere(resp)
    /\ UserThere(resp)
    /\ ~UserParses(resp)
    /\ resp.status = 401

\* C5: a token that register or login has just issued (generateToken), when
\* presented in the next step and not blacklisted, is admitted with scope
\* {admin, user} for the role admin and {user} otherwise
C5_Step ==
    (/\ resp.route \in {"register", "login"}
     /\ resp.status \in {200, 201}
     /\ ~isTokenBlacklisted(redis, resp.body.token, now)
     /\ resp' # resp
     /\ GuardedAuth(resp')
     /\ resp'.auth = resp.body.token)
    => (/\ resp'.gate.isValid
        /\ resp'.gate.credentials.scope =
              IF resp.body.user.role = "admin" THEN {"admin", "user"} ELSE {"user"})

C5_IssuedTokenAdmitted == [][C5_Step]_vars

\* C5 witness: a user of role user presents the token generateToken gives
\* it at this instant and is admitted with scope {user}
C5_Witness ==
    /\ GuardedAuth(resp)
    /\ resp.gate.isValid
    /\ resp.gate.credentials.user.role = "user"
    /\ resp.gate.credentials.scope = {"user"}
    /\ resp.auth = generateToken(resp.gate.credentials.user,
                                 resp.gate.credentials.tenantId, resp.at)

\* C6: on POST /api/users and GET /api/users a missing or invalid token is
\* answered 401 and a valid token without the admin tag 403; in both cases the
\* handler does not run and the store is left as it was
C6_AdminRoutes ==
    resp.route \in {"createUser", "listUsers"} =>
        LET v == Principal(resp) IN
        /\ ~v.isValid =>
              (resp.status = 401 /\ ~resp.handlerRan /\ resp.after = resp.before)
        /\ (v.isValid /\ "admin" \notin v.credentials.scope) =>
              (resp.status = 403 /\ ~resp.handlerRan /\ resp.after = resp.before)

\* C6 witness: a non-admin asks to create a user with a well-formed payload
C6_Witness ==
    /\ resp.route = "createUser"
    /\ Principal(resp).isValid
    /\ "admin" \notin Principal(resp).credentials.scope
    /\ PayloadError(resp.payload) = ""
    /\ resp.status = 403

\* C7: on the LLM routes of a server that has them, a valid token of tenant A
\* with an x-tenant-id other than A is answered 403 and no call to the
\* inference service is made
C7_ForeignTenantForbidden ==
    (/\ GuardedLlm(resp)
     /\ mounted = LlmRoutes
     /\ Principal(resp).isValid
     /\ resp.hdr.kind # "absent"
     /\ resp.hdr # UuidHeader(Principal(resp).credentials.tenantId))
    => (resp.status = 403 /\ resp.ollamaCalls = 0)

\* the messages that contain 'Tenant ID header is required'
SaysHeaderRequired(m) == m \in {"Tenant ID header is required"}

\* C8: with a valid token, a missing x-tenant-id is answered 403 with a
\* message containing 'Tenant ID header is required' and a mismatched one 403
\* with the message 'Tenant ID mismatch'
C8_MissingAndMismatchMessages ==
    (/\ GuardedLlm(resp)
     /\ mounted = LlmRoutes
     /\ Principal(resp).isValid)
    => /\ resp.hdr.kind = "absent" =>
             (resp.status = 403 /\ SaysHeaderRequired(resp.message))
       /\ (/\ resp.hdr.kind # "absent"
           /\ resp.hdr # UuidHeader(Principal(resp).credentials.tenantId)) =>
             (resp.status = 403 /\ resp.message = "Tenant ID mismatch")

\* C9: on the server init() builds, a chat request with a valid token of
\* tenant A, x-tenant-id = A and a valid message list, which the inference
\* service answers, is answered 200 with the service's response plus tenant_id
\* and user_id
C9_ChatServed ==
    (/\ resp.route = "chat"
     /\ mounted = InitRoutes
     /\ Principal(resp).isValid
     /\ resp.hdr = UuidHeader(Principal(resp).credentials.tenantId)
     /\ resp.outcome = "ok")
    => (/\ resp.status = 200
        /\ resp.body = Spread(OllamaChatResponse(resp.payload.model),
                              [tenant_id |-> Principal(resp).credentials.tenantId,
                               user_id |-> Principal(resp).credentials.user.userId]))

\* the messages that wrap the upstream error text
WrapsUpstreamError(m) ==
    m \in {"Ollama service error: Ollama request failed: connect ECONNREFUSED",
           "Ollama service error: Ollama request failed: timeout of 120000ms exceeded",
           "Ollama service error: Failed to fetch models: connect ECONNREFUSED",
           "Ollama service error: Failed to fetch models: timeout of 120000ms exceeded"}

\* C10: when the call to the inference service fails during an authorised
\* chat or model-list request, the request is answered 502 with a message that
\* wraps the upstream error
C10_UpstreamFailureIsBadGateway ==
    (/\ GuardedLlm(resp)
     /\ mounted = LlmRoutes
     /\ Principal(resp).isValid
     /\ resp.hdr = UuidHeader(Principal(resp).credentials.tenantId)
     /\ resp.outcome \in {"error", "timeout"})
    => (resp.status = 502 /\ WrapsUpstreamError(resp.message))

\* ------------------------------------------------ claims on the directory
\* C11: what createUser, getUser, getAllUsers and updateUser return has no
\* password field, whatever the role (given or omitted), the update fields and
\* the stored record; what getUserByEmail returns has the password hash
C11_NoPasswordReturned ==
    /\ (/\ resp.route \in {"tenantService.createUser", "tenantService.getUser",
                           "tenantService.updateUser"}
        /\ resp.result.found)
       => "password" \notin DOMAIN resp.result.value
    /\ resp.route = "tenantService.getAllUsers"
       => \A i \in 1..Len(resp.result.value) : "password" \notin DOMAIN resp.result.value[i]
    /\ (resp.route = "tenantService.getUserByEmail" /\ resp.result.found)
       => "password" \in DOMAIN resp.result.value

\* C11 witness: updateUser with updates that name a password returns the
\* user it has stored with that password
C11_Witness ==
    /\ resp.route = "tenantService.updateUser"
    /\ resp.result.found
    /\ "password" \in DOMAIN resp.args.updates
    /\ JSONparse(resp.after.user[<<resp.args.tenantId, resp.args.userId>>]).password
          = resp.args.updates.password
    /\ "password" \notin DOMAIN resp.result.value

\* C15: createTenant with a domain the domain index already holds creates no
\* tenant record and leaves the index entry on the tenant that owned it
C15_CreateTenantKeepsIndexedDomain ==
    (/\ resp.route = "tenantService.createTenant"
     /\ resp.args.data.domain \in DOMAIN resp.before.domain)
    => (/\ DOMAIN resp.after.tenant = DOMAIN resp.before.tenant
        /\ resp.after.domain[resp.args.data.domain]
              = resp.before.domain[resp.args.data.domain])

\* C19: updateTenant and updateUser keep the identity of the record whatever
\* the updates name, keep every field the updates do not name (updatedAt
\* apart), return what they stored (users without password) and write no other
\* key; for an absent record they write nothing
C19_UpdateKeepsIdentity ==
    /\ resp.route = "tenantService.updateTenant" =>
          IF ~resp.result.found THEN resp.after = resp.before
          ELSE LET id == resp.args.tenantId
                   old == JSONparse(resp.before.tenant[id])
                   new == JSONparse(resp.after.tenant[id])
               IN /\ new.tenantId = id
                  /\ resp.result.value = new
                  /\ \A f \in DOMAIN old \ (DOMAIN resp.args.updates \cup {"updatedAt"}) :
                        f \in DOMAIN new /\ new[f] = old[f]
                  /\ resp.after = [resp.before EXCEPT !.tenant = resp.after.tenant]
                  /\ \A k \in DOMAIN resp.before.tenant \ {id} :
                        resp.after.tenant[k] = resp.before.tenant[k]
                  /\ DOMAIN resp.after.tenant = DOMAIN resp.before.tenant
    /\ resp.route = "tenantService.updateUser" =>
          IF ~resp.result.found THEN resp.after = resp.before
          ELSE LET key == <<resp.args.tenantId, resp.args.userId>>
                   old == JSONparse(resp.before.user[key])
                   new == JSONparse(resp.after.user[key])
               IN /\ new.userId = resp.args.userId
                  /\ new.tenantId = resp.args.tenantId
                  /\ resp.result.value = [f \in DOMAIN new \ {"password"} |-> new[f]]
                  /\ \A f \in DOMAIN old \ (DOMAIN resp.args.updates \cup {"updatedAt"}) :
                        f \in DOMAIN new /\ new[f] = old[f]
                  /\ resp.after = [resp.before EXCEPT !.user = resp.after.user]
                  /\ \A k \in DOMAIN resp.before.user \ {key} :
                        resp.after.user[k] = resp.before.user[k]
                  /\ DOMAIN resp.after.user = DOMAIN resp.before.user

\* C19 witness: updateUser with updates that name another userId and tenantId
C19_Witness ==
    /\ resp.route = "tenantService.updateUser"
    /\ resp.result.found
    /\ "userId" \in DOMAIN resp.args.updates
    /\ resp.args.updates.userId # resp.args.userId
    /\ resp.args.updates.tenantId # resp.args.tenantId
    /\ resp.result.value.userId = resp.args.userId

\* C20: getAllUsers(tenantId) returns exactly the users whose id is in the
\* tenant's user-id set and whose record exists, each once and without
\* password; ids without a record are skipped, the empty set gives the empty list
C20_Listing ==
    resp.route = "tenantService.getAllUsers" =>
        LET tid == resp.args.tenantId
            ids == IF tid \in DOMAIN resp.before.users THEN resp.before.users[tid] ELSE {}
            live == {i \in ids : <<tid, i>> \in DOMAIN resp.before.user}
            rec(i) == JSONparse(resp.before.user[<<tid, i>>])
            got == resp.result.value
        IN /\ resp.result.found
           /\ {got[n] : n \in 1..Len(got)}
                 = {[f \in DOMAIN rec(i) \ {"password"} |-> rec(i)[f]] : i \in live}
           /\ Len(got) = Cardinality(live)
           /\ ids = {} => got = <<>>

\* C20 witness: one id of the set has no record, another is listed
C20_Witness ==
    /\ resp.route = "tenantService.getAllUsers"
    /\ resp.args.tenantId \in DOMAIN resp.before.users
    /\ \E i \in resp.before.users[resp.args.tenantId] :
          <<resp.args.tenantId, i>> \notin DOMAIN resp.before.user
    /\ Len(resp.result.value) >= 1

\* ------------------------------------------ claims on the routes of authRoutes
\* the user objects a response body carries
BodyUsers(b) ==
    (IF "user" \in DOMAIN b THEN {b.user} ELSE {})
    \cup (IF "users" \in DOMAIN b THEN {b.users[i] : i \in 1..Len(b.users)} ELSE {})

\* C12: neither the Principal of a request nor the body of any response
\* (success or error, of any route) carries a password
C12_NoPasswordLeaves ==
    /\ "password" \notin DOMAIN resp.body
    /\ \A u \in BodyUsers(resp.body) : "password" \notin DOMAIN u
    /\ resp.gate.isValid => "password" \notin DOMAIN resp.gate.credentials.user

\* C12 witness: a login answered with the user, whose stored record has the hash
C12_Witness ==
    /\ resp.route = "login"
    /\ resp.status = 200
    /\ "password" \in
          DOMAIN JSONparse(resp.before.user[<<resp.body.user.tenantId, resp.body.user.userId>>])
    /\ "password" \notin DOMAIN resp.body.user

\* C14: a well-formed POST /api/auth/register for a domain whose index entry
\* names an existing tenant is answered 409 'Tenant with this domain already
\* exists' and writes nothing
C14_RegisterExistingDomain ==
    (/\ resp.route = "register"
     /\ PayloadError(resp.payload) = ""
     /\ resp.payload.domain \in DOMAIN resp.before.domain
     /\ resp.before.domain[resp.payload.domain] \in DOMAIN resp.before.tenant)
    => (/\ resp.status = 409
        /\ resp.message = "Tenant with this domain already exists"
        /\ resp.after = resp.before)

\* C14 witness: a second registration of a registered domain
C14_Witness ==
    /\ resp.route = "register"
    /\ resp.status = 409
    /\ resp.payload.domain \in DOMAIN resp.before.domain
    /\ resp.after = resp.before
    /\ redis = resp.before

\* C18: no two user records of one tenant have the same username
C18_UsernameUniqueInTenant ==
    \A k1 \in DOMAIN redis.user : \A k2 \in DOMAIN redis.user :
        (k1 # k2 /\ k1[1] = k2[1] /\ Parses(redis.user[k1]) /\ Parses(redis.user[k2]))
        => JSONparse(redis.user[k1]).username # JSONparse(redis.user[k2]).username

\* C16: a well-formed POST /api/users by an admin is answered 409, with
\* nothing written, exactly when the email resolves to a user of the admin's
\* own tenant; otherwise it is answered 201, whatever other tenants hold under
\* that email, and the records of the other tenants are left as they were
C16_EmailCheckScopedToTenant ==
    (/\ resp.route = "createUser"
     /\ Principal(resp).isValid
     /\ "admin" \in Principal(resp).credentials.scope
     /\ PayloadError(resp.payload) = "")
    => LET tid == Principal(resp).credentials.tenantId
           ekey == <<tid, resp.payload.email>>
           dup == /\ ekey \in DOMAIN resp.before.email
                  /\ <<tid, resp.before.email[ekey]>> \in DOMAIN resp.before.user
       IN /\ dup => (resp.status = 409 /\ resp.after = resp.before)
          /\ ~dup =>
                /\ resp.status = 201
                /\ resp.after.tenant = resp.before.tenant
                /\ resp.after.domain = resp.before.domain
                /\ \A k \in DOMAIN resp.before.user : resp.after.user[k] = resp.before.user[k]
                /\ \A k \in DOMAIN resp.before.email :
                      k[1] # tid => resp.after.email[k] = resp.before.email[k]
                /\ \A k \in DOMAIN resp.before.users :
                      k # tid => resp.after.users[k] = resp.before.users[k]
                /\ \A k \in DOMAIN resp.after.user \ DOMAIN resp.before.user : k[1] = tid

\* C16 witness: the email is created in one tenant while another tenant has it
C16_Witness ==
    /\ resp.route = "createUser"
    /\ resp.status = 201
    /\ \E k \in DOMAIN resp.before.email :
          /\ k[2] = resp.payload.email
          /\ k[1] # resp.gate.credentials.tenantId
          /\ <<k[1], resp.before.email[k]>> \in DOMAIN resp.before.user

\* ----------------------------------------------- claims on requests in flight
\* C13: no two tenant records have the same domain
C13_DomainUnique ==
    \A i \in DOMAIN redis.tenant : \A j \in DOMAIN redis.tenant :
        i # j => JSONparse(redis.tenant[i]).domain # JSONparse(redis.tenant[j]).domain

\* C17: no two user records of one tenant have the same email
C17_EmailUniqueInTenant ==
    \A k1 \in DOMAIN redis.user : \A k2 \in DOMAIN redis.user :
        (k1 # k2 /\ k1[1] = k2[1])
        => JSONparse(redis.user[k1]).email # JSONparse(redis.user[k2]).email

\* ------------------------------------------------------ claims on passwords
\* C21: verifyPassword(p, h) is true exactly when h is the hash createUser
\* stored for the plaintext p: verifying right after createUser stored the hash
\* of a plaintext, against that hash, answers true for that plaintext and false
\* for every other one (the empty string and the hash itself included).
C21_Step ==
    (/\ resp.route = "tenantService.createUser"
     /\ resp'.route = "tenantService.verifyPassword"
     /\ \E k \in DOMAIN resp.after.user \ DOMAIN resp.before.user :
           JSONparse(resp.after.user[k]).password = resp'.args.hash)
    => (resp'.result.value <=> resp'.args.password = resp.args.data.password)

C21_VerifyExact == [][C21_Step]_vars

\* --------------------------------------------------------- claims on login
\* the tenant id a login payload names in store s (0: the domain is not indexed)
LoginTenantId(s, p) ==
    IF p.by = "tenantId" THEN p.tenantId
    ELSE IF p.domain \in DOMAIN s.domain THEN s.domain[p.domain] ELSE 0

\* the user id the email index of tenant tid holds for the payload's email (0: none)
LoginUserId(s, tid, p) ==
    IF <<tid, p.email>> \in DOMAIN s.email /\ <<tid, s.email[<<tid, p.email>>]>> \in DOMAIN s.user
    THEN s.email[<<tid, p.email>>] ELSE 0

\* C22: login decides in this order: tenant not found -> 404; tenant not active
\* -> 403; no user with that email -> 401; password does not verify -> 401; user
\* not active -> 403; otherwise 200 with a token, the user and a session id. A
\* token and a session are produced in the last case only.
C22_LoginOrder ==
    (resp.route = "login" /\ resp.handlerRan /\ resp.f = 0) =>
        LET s == resp.before
            p == resp.payload
            tid == LoginTenantId(s, p)
            uid == LoginUserId(s, tid, p)
            tenant == JSONparse(s.tenant[tid])
            user == JSONparse(s.user[<<tid, uid>>])
            expected ==
                IF tid \notin DOMAIN s.tenant THEN 404
                ELSE IF tenant.status # "active" THEN 403
                ELSE IF uid = 0 THEN 401
                ELSE IF user.password # bcryptHash(p.password) THEN 401
                ELSE IF user.status # "active" THEN 403
                ELSE 200
        IN /\ resp.status = expected
           /\ resp.status = 200 <=> "token" \in DOMAIN resp.body
           /\ resp.status = 200 <=> "sessionId" \in DOMAIN resp.body
           /\ resp.status # 200 => resp.after = resp.before
           /\ resp.status = 200 =>
                 /\ resp.body.token \in tokens
                 /\ resp.body.user.userId = uid
                 /\ resp.body.sessionId \in DOMAIN resp.after.session \ DOMAIN resp.before.session

\* a wrong password for a user who is not active: the password decides first
C22_Witness ==
    /\ resp.route = "login" /\ resp.handlerRan /\ resp.status = 401
    /\ LET tid == LoginTenantId(resp.before, resp.payload)
           uid == LoginUserId(resp.before, tid, resp.payload)
       IN /\ tid \in DOMAIN resp.before.tenant
          /\ uid # 0
          /\ JSONparse(resp.before.user[<<tid, uid>>]).status # "active"

\* C25: token validation checks that tenant and user exist, not their status:
\* once the tenant's status is inactive or suspended, a token that passes the
\* time checks, is not blacklisted and names an existing tenant and user is
\* still admitted, while every login against that tenant is rejected with 403
\* and yields no token.
C25_StatusNotValidated ==
    /\ (/\ resp.route = "me"
        /\ resp.auth.kind = "jwt"
        /\ VerifyTime(resp.auth, resp.at)
        /\ ~redisLive(resp.before, "blacklist", resp.auth, resp.at)
        /\ resp.auth.tenantId \in DOMAIN resp.before.tenant
        /\ JSONparse(resp.before.tenant[resp.auth.tenantId]).status # "active"
        /\ <<resp.auth.tenantId, resp.auth.userId>> \in DOMAIN resp.before.user)
       => resp.status = 200
    /\ (/\ resp.route = "login" /\ resp.handlerRan
        /\ LoginTenantId(resp.before, resp.payload) \in DOMAIN resp.before.tenant
        /\ JSONparse(resp.before.tenant[LoginTenantId(resp.before, resp.payload)]).status
              # "active")
       => /\ resp.status = 403
          /\ "token" \notin DOMAIN resp.body
          /\ resp.after = resp.before

\* a token admitted while its tenant is suspended
C25_Witness ==
    /\ resp.route = "me" /\ resp.status = 200
    /\ resp.auth.kind = "jwt"
    /\ JSONparse(resp.before.tenant[resp.auth.tenantId]).status = "suspended"

\* the payload p with its email replaced
WithEmail(p, e) == [p EXCEPT !.email = e]

\* the payload p naming another tenant the same way
WithTenant(p, x) ==
    IF p.by = "domain" THEN [p EXCEPT !.domain = x] ELSE [p EXCEPT !.tenantId = x]

\* the tenants a login payload can name the way p does
TenantNamesFor(p) == IF p.by = "domain" THEN Domains ELSE {1, MaxUuid}

\* C23: a rejected login does not reveal whether the user or the tenant exists:
\* an attempt that differs from the rejected one only in the email (one
\* registered and given a wrong password, the other not registered), or only in
\* the tenant named (one exists, the other does not), and is rejected too, gets
\* the same status and body; a rejection body holds the error fields only.
C23_NoEnumeration ==
    (resp.route = "login" /\ resp.handlerRan /\ resp.f = 0 /\ resp.status # 200) =>
        LET s == resp.before
            p == resp.payload
            tid == LoginTenantId(s, p)
            Same(q) ==
                LET o == loginHandler(s, q, resp.at, 0).out
                IN o.status # 200 => (o.status = resp.status /\ o.body = resp.body)
        IN /\ \A e \in Emails \ {p.email} :
                (/\ tid \in DOMAIN s.tenant
                 /\ (LoginUserId(s, tid, p) = 0) # (LoginUserId(s, tid, WithEmail(p, e)) = 0)
                 /\ \A q \in {p, WithEmail(p, e)} :
                       LoginUserId(s, tid, q) # 0 =>
                          ~verifyPassword(q.password,
                               JSONparse(s.user[<<tid, LoginUserId(s, tid, q)>>]).password))
                => Same(WithEmail(p, e))
           /\ \A x \in TenantNamesFor(p) :
                ((tid \in DOMAIN s.tenant)
                    # (LoginTenantId(s, WithTenant(p, x)) \in DOMAIN s.tenant))
                => Same(WithTenant(p, x))
           /\ DOMAIN resp.body = {"statusCode", "error", "message"}

\* ------------------------------------------------------- claims on sessions
\* the session keys of store s that are live at t and belong to the user
LiveSessions(s, userId, t) ==
    {k \in DOMAIN s.session :
        redisLive(s, "session", k, t) /\ JSONparse(s.session[k].value).userId = userId}

\* C24: token validity does not depend on session records: a token that passes
\* the time checks, is not blacklisted and names an existing tenant and user is
\* admitted in every state where no session of that user is live (none was
\* created, it was deleted, or it expired).
C24_NoSessionNeeded ==
    (/\ resp.route = "me"
     /\ resp.auth.kind = "jwt"
     /\ VerifyTime(resp.auth, resp.at)
     /\ ~redisLive(resp.before, "blacklist", resp.auth, resp.at)
     /\ resp.auth.tenantId \in DOMAIN resp.before.tenant
     /\ <<resp.auth.tenantId, resp.auth.userId>> \in DOMAIN resp.before.user
     /\ LiveSessions(resp.before, resp.auth.userId, resp.at) = {})
    => resp.status = 200

\* a token is admitted while the only session of its user has expired
C24_Witness ==
    /\ resp.route = "me" /\ resp.status = 200
    /\ resp.auth.kind = "jwt"
    /\ LiveSessions(resp.before, resp.auth.userId, resp.at) = {}
    /\ \E k \in DOMAIN resp.before.session :
          /\ JSONparse(resp.before.session[k].value).userId = resp.auth.userId
          /\ resp.before.session[k].expires <= resp.at

\* ------------------------------------------------------ claims on the clock
\* C26: a token is rejected with 401 once its age from issue exceeds
\* 14400 + 15 seconds, whatever its exp claim, and once the present is more
\* than 15 seconds past its exp; a token of generateToken that names an
\* existing tenant and user and is not blacklisted is admitted from its issue
\* until 15 seconds past its exp.
C26_TimeChecks ==
    (resp.route = "me" /\ resp.auth.kind = "jwt") =>
        LET tok == resp.auth
            age == resp.at - tok.iat
        IN /\ age > maxAgeSec + timeSkewSec => resp.status = 401
           /\ resp.at > tok.exp + timeSkewSec => resp.status = 401
           /\ (/\ tok.exp = tok.iat + ttlSec
               /\ tok.iat <= resp.at
               /\ resp.at < tok.exp + timeSkewSec
               /\ ~redisLive(resp.before, "blacklist", tok, resp.at)
               /\ tok.tenantId \in DOMAIN resp.before.tenant
               /\ <<tok.tenantId, tok.userId>> \in DOMAIN resp.before.user)
              => resp.status = 200

\* a token whose exp lies far ahead is rejected for its age alone
C26_Witness ==
    /\ resp.route = "me" /\ resp.status = 401
    /\ resp.auth.kind = "jwt"
    /\ resp.at - resp.auth.iat > maxAgeSec + timeSkewSec
    /\ resp.auth.exp > resp.at
    /\ <<resp.auth.tenantId, resp.auth.userId>> \in DOMAIN resp.before.user

\* ------------------------------------------------ claims on the inference calls
\* C27: whatever the stream option of a chat request, the request forwarded to
\* the inference service carries stream = false, and the caller receives one
\* complete response body (done = true), never a part of one; the same holds
\* for every request handed to OllamaService.chat.
C27_NeverStreams ==
    /\ (resp.route = "chat" /\ resp.handlerRan /\ resp.ollamaCalls = 1) =>
          LET h == chatHandler(resp.gate.credentials, resp.hdr, resp.payload, resp.outcome)
          IN /\ h.sent = [resp.payload EXCEPT !.stream = FALSE]
             /\ resp.status \in {200, 500}
             /\ resp.status = 200 =>
                   /\ resp.body.done = TRUE
                   /\ resp.body.message = OllamaChatResponse(resp.payload.model).message
    /\ resp.route = "ollamaService.chat" =>
          /\ resp.result.value.sent = [resp.args.request EXCEPT !.stream = FALSE]
          /\ resp.result.found => resp.result.value.data.done = TRUE

\* a chat request that asks for streaming is answered with the whole response
C27_Witness ==
    /\ resp.route = "chat" /\ resp.handlerRan /\ resp.ollamaCalls = 1
    /\ resp.payload.stream = TRUE
    /\ resp.status = 200
    /\ resp.body.done = TRUE

\* C28: nothing is retried. A chat or model-list request makes at most one
\* inference call, and when that call fails the request fails with it; a store
\* call of the handler or of token validation that fails is not issued again:
\* the failure is the outcome of the request (500 from the handler, 401 from
\* validation).
C28_NoRetry ==
    /\ resp.route \in {"chat", "models"} =>
          /\ resp.ollamaCalls <= 1
          /\ resp.ollamaCalls = 1 =>
                IF resp.outcome = "ok" THEN resp.status = 200 ELSE resp.status = 500
    /\ (resp.route \in {"me", "listUsers"} /\ resp.handlerRan /\ resp.f = 1) =>
          (resp.status = 500 /\ resp.after = resp.before)
    /\ (/\ resp.route \in {"me", "listUsers"}
        /\ resp.auth.kind = "jwt"
        /\ resp.vfault # "none") =>
          (resp.status = 401 /\ ~resp.handlerRan)

\* an inference call that timed out, made once, fails the chat request
C28_Witness ==
    /\ resp.route = "chat" /\ resp.handlerRan
    /\ resp.outcome = "timeout"
    /\ resp.ollamaCalls = 1
    /\ resp.status = 500

\* ---------------------------------------------------- claims on store failures
StoreRoutes == {"register", "login", "logout", "me", "createUser", "listUsers"}

\* the request's token reached validate, and validate reached the store call
\* that fails
ValidateFailed(r) ==
    /\ r.route \in StoreRoutes \ {"register", "login"}
    /\ r.auth.kind = "jwt" /\ VerifyTime(r.auth, r.at)
    /\ \/ r.vfault \in {"getClient", "blacklist"}
       \/ r.vfault = "tenant" /\ ~redisLive(r.before, "blacklist", r.auth, r.at)
       \/ /\ r.vfault = "user"
          /\ ~redisLive(r.before, "blacklist", r.auth, r.at)
          /\ r.auth.tenantId \in DOMAIN r.before.tenant

\* the first store call of the handler failed
HandlerFailed(r) == r.route \in StoreRoutes /\ r.handlerRan /\ r.f = 1

\* the errors a handler raises itself keep their status
OwnErrorsPass(r) ==
    (r.route \in StoreRoutes /\ r.handlerRan /\ r.f = 0) =>
        /\ r.status # 500
        /\ (r.route = "register" /\ r.payload.domain \in DOMAIN r.before.domain)
              => r.status = 409
        /\ (/\ r.route = "createUser"
            /\ LoginUserId(r.before, r.gate.credentials.tenantId, r.payload) # 0)
              => r.status = 409
        /\ (r.route = "login" /\ LoginTenantId(r.before, r.payload) \notin DOMAIN r.before.tenant)
              => r.status = 404
        /\ (/\ r.route = "login"
            /\ LoginTenantId(r.before, r.payload) \in DOMAIN r.before.tenant
            /\ LoginUserId(r.before, LoginTenantId(r.before, r.payload), r.payload) = 0)
              => r.status = 401

ForeignKeys(s, tid) ==
    [user  |-> [k \in {x \in DOMAIN s.user : x[1] # tid} |-> s.user[k]],
     email |-> [k \in {x \in DOMAIN s.email : x[1] # tid} |-> s.email[k]],
     users |-> [k \in DOMAIN s.users \ {tid} |-> s.users[k]]]

\* the store with the user keys of tenant tid alone
OwnKeys(s, tid) ==
    [s EXCEPT !.user  = [k \in {x \in DOMAIN s.user : x[1] = tid} |-> s.user[k]],
              !.email = [k \in {x \in DOMAIN s.email : x[1] = tid} |-> s.email[k]],
              !.users = [k \in DOMAIN s.users \cap {tid} |-> s.users[k]]]

\* C30: user management is confined to the caller's tenant. For a Principal of
\* tenant A, whatever the payload, POST /api/users creates a user under A only
\* and GET /api/users returns users of A only, namely what it would return
\* were the user keys of every other tenant absent; neither request changes a
\* user record, user-id set or email index entry of another tenant.
C30_ConfinedToTenant ==
    (resp.route \in {"createUser", "listUsers"} /\ Principal(resp).isValid) =>
        LET tid == Principal(resp).credentials.tenantId
            cred == Principal(resp).credentials
        IN /\ ForeignKeys(resp.after, tid) = ForeignKeys(resp.before, tid)
           /\ \A u \in BodyUsers(resp.body) : u.tenantId = tid
           /\ resp.route = "createUser" =>
                 /\ resp.status = 201 =>
                       \E k \in DOMAIN resp.after.user \ DOMAIN resp.before.user :
                          /\ k = <<tid, resp.body.user.userId>>
                          /\ JSONparse(resp.after.user[k]).tenantId = tid
                          /\ resp.after.email[<<tid, resp.payload.email>>] = k[2]
                          /\ k[2] \in resp.after.users[tid]
                 /\ resp.status # 201 => resp.after = resp.before
           /\ (resp.route = "listUsers" /\ resp.handlerRan) =>
                 /\ resp.status = 200
                 /\ resp.body = listUsersHandler(OwnKeys(resp.before, tid), cred, 0).body
                 /\ resp.after = resp.before

\* an admin lists the users of its tenant while another tenant has users too
C30_Witness ==
    /\ resp.route = "listUsers" /\ resp.status = 200
    /\ Len(resp.body.users) >= 1
    /\ \E k \in DOMAIN resp.before.user : k[1] # resp.gate.credentials.tenantId

\* --------------------------------------------------------- claims on logout
\* C31: logout extracts the token, blacklists it and deletes the session: after
\* a logout answered 200, no session of the user who logged out can be
\* retrieved with getSession.
C31_LogoutDeletesSession ==
    (resp.route = "logout" /\ resp.status = 200) =>
        \A i \in DOMAIN resp.after.session :
            LET r == getSession(resp.after, i, resp.at)
            IN r.found => r.session.userId # resp.gate.credentials.user.userId

\* --------------------------------------------------- claims on the store client
\* C32: reconnectStrategy returns retries x 500 ms for every retry count up to
\* and including 10 and the error 'Redis connection failed' for every count
\* above 10; the delay never exceeds 5000 ms and a reconnection ends after a
\* bounded number of attempts.
C32_ReconnectBounded ==
    resp.route = "redisClient.reconnectStrategy" =>
        LET n == resp.args.retries
            r == resp.result.value
        IN /\ n <= 10 => (~r.error /\ r.delay = n * 500 /\ r.delay <= 5000)
           /\ n > 10 => (r.error /\ r.message = "Redis connection failed")
           /\ resp.args.loop => n <= 11

\* the eleventh retry of a reconnection ends it
C32_Witness ==
    /\ resp.route = "redisClient.reconnectStrategy"
    /\ resp.args.loop
    /\ resp.args.retries = 11
    /\ resp.result.value.error

\* ------------------------------------------- claims on requests that wait
\* a request with tag i waits for the inference service
Pending(i) == \E r \in inflight : r.rid = i /\ r.rq.route \in {"chat", "models"}

C35_ValidationReadsOnly ==
    /\ (GuardedAuth(resp) /\ resp.auth.kind = "jwt" /\ VerifyTime(resp.auth, resp.at)) =>
          LET calls == validateCalls(resp.before, resp.auth, resp.at, resp.vfault)
          IN /\ \A i \in 1..Len(calls) : calls[i].verb \in {"exists", "get"}
             /\ redisRun(resp.before, calls) = resp.before
             /\ ~resp.handlerRan => resp.after = resp.before
             /\ resp.route \in {"me", "listUsers"} => resp.after = resp.before
    /\ (resp.route = "login" /\ resp.status = 200) =>
          /\ [resp.after EXCEPT !.session = resp.before.session] = resp.before
          /\ Cardinality(DOMAIN resp.after.session \ DOMAIN resp.before.session) = 1

\* a blacklisted token is validated and rejected, and its blacklist entry stays
C35_Witness ==
    /\ resp.route = "me" /\ resp.status = 401
    /\ resp.auth.kind = "jwt"
    /\ redisLive(resp.before, "blacklist", resp.auth, resp.at)
    /\ resp.after = resp.before
    /\ Len(validateCalls(resp.before, resp.auth, resp.at, resp.vfault)) = 1

\* C36: the capability set comes from the role the user record holds when the
\* token is validated, not from the role claim of the token: once the stored
\* role is user, a token issued while it was admin yields {user} and the
\* admin-only route answers 403; once it is admin, a token issued while it was
\* user yields {admin, user}.
C36_ScopeFromStoredRole ==
    (/\ GuardedAuth(resp)
     /\ resp.auth.kind = "jwt" /\ VerifyTime(resp.auth, resp.at)
     /\ ~redisLive(resp.before, "blacklist", resp.auth, resp.at)
     /\ TenantThere(resp) /\ UserParses(resp)) =>
        LET role == JSONparse(resp.before.user[<<resp.auth.tenantId, resp.auth.userId>>]).role
        IN /\ resp.gate.isValid
           /\ resp.gate.credentials.scope
                 = (IF role = "admin" THEN {"admin", "user"} ELSE {"user"})
           /\ resp.route = "listUsers" =>
                 resp.status = (IF role = "admin" THEN 200 ELSE 403)

\* a token issued to an admin is refused the admin-only route after the role changed
C36_Witness ==
    /\ resp.route = "listUsers" /\ resp.status = 403
    /\ resp.auth.kind = "jwt" /\ resp.auth.role = "admin"
    /\ resp.gate.isValid
    /\ resp.gate.credentials.scope = {"user"}

C38_IndexConsistent ==
    /\ \A d \in DOMAIN redis.domain :
          /\ redis.domain[d] \in DOMAIN redis.tenant
          /\ JSONparse(redis.tenant[redis.domain[d]]).domain = d
    /\ \A k \in DOMAIN redis.email :
          /\ <<k[1], redis.email[k]>> \in DOMAIN redis.user
          /\ JSONparse(redis.user[<<k[1], redis.email[k]>>]).email = k[2]

\* ------------------------------------------------- claims on registration
\* C39: registration is all-or-nothing: a POST /api/auth/register that is not
\* answered 201 leaves no tenant record, tenant-id set member, domain-index
\* entry or user record of its own in the store; one that is answered 201
\* leaves a new tenant with exactly one user, whose role is admin.
C39_RegisterAllOrNothing ==
    resp.route = "register" =>
        /\ resp.status # 201 => resp.after = resp.before
        /\ resp.status = 201 =>
              LET tid == resp.body.tenant.tenantId
                  mine == {k \in DOMAIN resp.after.user : k[1] = tid}
              IN /\ tid \in DOMAIN resp.after.tenant \ DOMAIN resp.before.tenant
                 /\ Cardinality(mine) = 1
                 /\ \A k \in mine : JSONparse(resp.after.user[k]).role = "admin"

\* C40: for every admitted request the Principal's tenantId is the tenantId
\* claim of the token, and the tenantId of the Principal's user is the
\* Principal's tenantId: whatever createUser and updateUser calls came before,
\* a token of one tenant never yields a user record of another tenant.
C40_PrincipalOfOwnTenant ==
    (GuardedAuth(resp) /\ resp.gate.isValid) =>
        /\ resp.gate.credentials.tenantId = resp.auth.tenantId
        /\ resp.gate.credentials.user.tenantId = resp.gate.credentials.tenantId
        /\ resp.gate.credentials.user.userId = resp.auth.userId
        /\ \A k \in DOMAIN resp.before.user :
              Parses(resp.before.user[k]) =>
                 JSONparse(resp.before.user[k]).tenantId = k[1]

\* a request is admitted for a user whose record was updated with the tenantId
\* of another tenant of the store
C40_Witness ==
    /\ resp.route = "me" /\ resp.status = 200
    /\ Cardinality(DOMAIN resp.before.tenant) >= 2
    /\ "updatedAt" \in DOMAIN JSONparse(resp.before.user[<<resp.auth.tenantId, resp.auth.userId>>])
    /\ resp.gate.credentials.user.tenantId = resp.auth.tenantId

====
